---- MODULE Spec2Model ----
(***************************************************************************)
(* A model of the x64 emulator core (src/x64.hxx, src/x64.cxx): the        *)
(* register file with its aliased views, the flag engine, the bounds       *)
(* checked memory image, the ModR/M decoder and the run() loop with the    *)
(* integer opcode arms.                                                    *)
(*                                                                         *)
(* An unsigned integer of the C++ source of sizeof N is a sequence of N    *)
(* bytes, least significant byte first (the layout of reg8_t and of the    *)
(* little-endian memory image), so that 64-bit arithmetic is exact.        *)
(***************************************************************************)
EXTENDS Integers, Sequences, FiniteSets, TLC

VARIABLES
    regs,                 \* reg8_t regs[16]: register -> 8 bytes
    rip,                  \* instruction pointer, 8 bytes
    rflags,               \* the flag word, as a number (bits 0..11 are used)
    mem,                  \* the memory image: sequence of MemSize bytes
    rfs, rgs,             \* segment bases, 8 bytes each
    prefix_rex,           \* _prefix_rex
    prefix_size,          \* _prefix_size
    prefix_sse2_repeat,   \* _prefix_sse2_repeat
    prefix_segment,       \* _prefix_segment
    rexW, rexR, rexX, rexB,  \* _rex.W/R/X/B
    rm, reg, mod,         \* _rm, _reg, _mod
    sibScale, sibIndex, sibBase,
    displacement,         \* _displacement, 8 bytes (two's complement)
    x87_fpu_control_word, \* 2 bytes: fldcw, fnstcw
    x87_fpu_status_word,  \* 2 bytes
    fregs,                \* float80_t fregs[8]: slot -> 10 bytes
    fp_sp,                \* the slot of st(0)
    xregs,                \* vec16_t xregs[16]: xmm register -> 16 bytes
    g_State,              \* the process-wide state word
    instruction_count,    \* run()'s local counter
    status,               \* "idle" (constructed), "run" (inside run()), "returned",
                          \* "terminated" (the hook), "aborted" (a failed assert)
                          \* or "undefined" (undefined behaviour was executed)
    hook,                 \* the message emulator_hard_termination got, or "none"
    oob,                  \* a host byte outside the memory buffer was touched
    ndebug,               \* the build defines NDEBUG
    tracer_enabled,       \* tracer.IsEnabled()
    pc,                   \* the place in run()'s loop: "head" (the label
                          \* _prefix_is_set) or "switch" (the opcode is fetched)
    op,                   \* run()'s local op: the opcode fetched last
    prev,                 \* history: the machine before the last step
    start,                \* history: the machine at the top of the loop, before
                          \* the instruction that ran last
    earlier,              \* history: the machine at the top of the loop, before
                          \* the instruction that ran before the last
    executed,             \* history: the instructions this call of run() has
                          \* completed, an instruction being an opcode with all
                          \* the prefix bytes in front of it
    insn_rip              \* history: the address of the first byte (the first
                          \* prefix) of the instruction that has not completed

vars == << regs, rip, rflags, mem, rfs, rgs, prefix_rex, prefix_size,
           prefix_sse2_repeat, prefix_segment, rexW, rexR, rexX, rexB, rm, reg,
           mod, sibScale, sibIndex, sibBase, displacement,
           x87_fpu_control_word, x87_fpu_status_word, fregs, fp_sp, xregs,
           g_State, instruction_count, status, hook, oob, ndebug, tracer_enabled, pc, op,
           prev, start, earlier, executed, insn_rip >>

(***************************************************************************)
(* Byte-vector arithmetic: the C++ unsigned types.                         *)
(***************************************************************************)

\* the value n (0 <= n < 2^31) as an unsigned integer of w bytes
RECURSIVE FromNat(_, _)
FromNat(n, w) == IF w = 0 THEN << >> ELSE << n % 256 >> \o FromNat(n \div 256, w - 1)

\* f as a tuple: a function written [i \in 1..n |-> e] with its elements
\* computed.  (The loops below test Len of their accumulator for the same
\* reason: the value of each round is computed before the next round.)
Vec(f) == f \o << >>

Zero(w) == Vec([i \in 1..w |-> 0])
Ones(w) == Vec([i \in 1..w |-> 255])

\* the number a byte vector holds; used only where it is known to be small
RECURSIVE ToNatFrom(_, _)
ToNatFrom(v, i) == IF i > Len(v) THEN 0 ELSE v[i] + 256 * ToNatFrom(v, i + 1)
ToNat(v) == ToNatFrom(v, 1)

IsZero(v) == \A i \in 1..Len(v) : v[i] = 0

\* (T) x for a narrower T, and the zero- and sign-extending conversions
Trunc(v, w) == SubSeq(v, 1, w)
val_signed(v) == v[Len(v)] >= 128
ZExt(v, w) == Vec([i \in 1..w |-> IF i <= Len(v) THEN v[i] ELSE 0])
SExt(v, w) == Vec([i \in 1..w |-> IF i <= Len(v) THEN v[i]
                                   ELSE IF val_signed(v) THEN 255 ELSE 0])

\* a + b + c on w bytes; the last element of the result is the carry out
RECURSIVE AddFrom(_, _, _, _)
AddFrom(a, b, c, i) ==
    IF i > Len(a) THEN << c >>
    ELSE LET t == a[i] + b[i] + c
         IN << t % 256 >> \o AddFrom(a, b, t \div 256, i + 1)

Add(a, b) == Trunc(AddFrom(a, b, 0, 1), Len(a))
Add3(a, b, c) == Trunc(AddFrom(a, b, c, 1), Len(a))
CarryOut(a, b, c) == AddFrom(a, b, c, 1)[Len(a) + 1]
Not(a) == Vec([i \in 1..Len(a) |-> 255 - a[i]])
Neg(a) == Add3(Not(a), Zero(Len(a)), 1)
Sub(a, b) == Add3(a, Not(b), 1)
Sub3(a, b, c) == Add3(Sub(a, b), Ones(Len(a)), 1 - c)
AddNat(a, n) == Add(a, FromNat(n, Len(a)))
SubNat(a, n) == Sub(a, FromNat(n, Len(a)))

\* unsigned and signed comparison
RECURSIVE ULtFrom(_, _, _)
ULtFrom(a, b, i) ==
    IF i = 0 THEN FALSE
    ELSE IF a[i] # b[i] THEN a[i] < b[i]
    ELSE ULtFrom(a, b, i - 1)
ULt(a, b) == ULtFrom(a, b, Len(a))
ULe(a, b) == ~ULt(b, a)
SLt(a, b) == IF val_signed(a) # val_signed(b) THEN val_signed(a) ELSE ULt(a, b)

\* bitwise operators on bytes and on byte vectors
RECURSIVE BitOp(_, _, _, _)
BitOp(k, x, y, n) ==
    IF n = 0 THEN 0
    ELSE LET p == x % 2
             q == y % 2
             r == CASE k = "and" -> p * q
                    [] k = "or"  -> (p + q + 1) \div 2
                    [] k = "xor" -> (p + q) % 2
         IN r + 2 * BitOp(k, x \div 2, y \div 2, n - 1)
And(a, b) == Vec([i \in 1..Len(a) |-> BitOp("and", a[i], b[i], 8)])
Or(a, b)  == Vec([i \in 1..Len(a) |-> BitOp("or", a[i], b[i], 8)])
Xor(a, b) == Vec([i \in 1..Len(a) |-> BitOp("xor", a[i], b[i], 8)])

\* bit n (0 = least significant) of a byte vector
RECURSIVE Pow2(_)
Pow2(n) == IF n = 0 THEN 1 ELSE 2 * Pow2(n - 1)
Bit(v, n) == (v[(n \div 8) + 1] \div Pow2(n % 8)) % 2

\* x << 1 and x >> 1 (logical) on the width of x; the bit shifted in is c
Shl1(v, c) == Vec([i \in 1..Len(v) |->
                  ((2 * v[i]) % 256) + (IF i = 1 THEN c ELSE v[i - 1] \div 128)])
Shr1(v, c) == Vec([i \in 1..Len(v) |->
                  (v[i] \div 2) + 128 * (IF i = Len(v) THEN c ELSE v[i + 1] % 2)])
RECURSIVE Shl(_, _)
Shl(v, n) == IF n = 0 \/ Len(v) = 0 THEN v ELSE Shl(Shl1(v, 0), n - 1)
RECURSIVE Shr(_, _)
Shr(v, n) == IF n = 0 \/ Len(v) = 0 THEN v ELSE Shr(Shr1(v, 0), n - 1)
\* x >> n on a signed type: the sign bit is shifted in
RECURSIVE Sar(_, _)
Sar(v, n) == IF n = 0 \/ Len(v) = 0 THEN v
             ELSE Sar(Shr1(v, IF val_signed(v) THEN 1 ELSE 0), n - 1)

\* the unsigned product of a and b, on Len(a) + Len(b) bytes
RECURSIVE ScaleFrom(_, _, _, _)
ScaleFrom(a, k, i, c) ==
    IF i > Len(a) THEN << c >>
    ELSE LET t == a[i] * k + c
         IN << t % 256 >> \o ScaleFrom(a, k, i + 1, t \div 256)
RECURSIVE MulAcc(_, _, _, _)
MulAcc(a, b, j, acc) ==
    IF j > Len(b) \/ Len(acc) = 0 THEN acc
    ELSE LET sc == ScaleFrom(a, b[j], 1, 0)
             sh == Vec([i \in 1..Len(acc) |->
                       IF i >= j /\ i - j + 1 <= Len(sc) THEN sc[i - j + 1] ELSE 0])
         IN MulAcc(a, b, j + 1, Add(acc, sh))
UMul(a, b) == MulAcc(a, b, 1, Zero(Len(a) + Len(b)))
\* a * b in the C++ type of both operands (the product modulo 2^(8 sizeof))
MulT(a, b) == Trunc(UMul(a, b), Len(a))

\* unsigned division by shift and subtract: << quotient, remainder >>
RECURSIVE DivStep(_, _, _, _, _)
DivStep(n, d, k, q, r) ==
    IF k < 0 \/ Len(q) = 0 THEN << q, r >>
    ELSE LET r1 == Shl1(r, Bit(n, k))
             ge == ULe(d, r1)
         IN DivStep(n, d, k - 1, Shl1(q, IF ge THEN 1 ELSE 0),
                    IF ge THEN Sub(r1, d) ELSE r1)
UDivMod(n, d) == DivStep(n, ZExt(d, Len(n) + 1), 8 * Len(n) - 1, Zero(Len(n)), Zero(Len(n) + 1))
UDiv(n, d) == UDivMod(n, d)[1]
UMod(n, d) == Trunc(UDivMod(n, d)[2], Len(n))
\* C++ signed division (the quotient truncates toward zero, the remainder
\* has the sign of the dividend), on two's complement byte vectors
Abs(v) == IF val_signed(v) THEN Neg(v) ELSE v
SDiv(n, d) == LET q == UDiv(Abs(n), Abs(d))
              IN IF val_signed(n) # val_signed(d) THEN Neg(q) ELSE q
SMod(n, d) == LET r == UMod(Abs(n), Abs(d))
              IN IF val_signed(n) THEN Neg(r) ELSE r

(***************************************************************************)
(* The machine.  Cur is the x64 object (with the process-wide g_State and  *)
(* run()'s counter) as one record; the operations below are functions from *)
(* such a record to the record after the operation.                        *)
(***************************************************************************)

MemSize   == 64      \* memory.size()
StackSize == 24      \* stack_commit
BaseAddr  == 4096    \* base_address
CodeLen   == 24      \* the bytes of the image that hold the program

base      == FromNat(BaseAddr, 8)
mem_size  == FromNat(MemSize, 8)
stack_size == FromNat(StackSize, 8)
stack_top == AddNat(base, MemSize - 8)
DataAddr  == AddNat(base, CodeLen)     \* the first byte after the program

rax == 0
rcx == 1
rdx == 2
rbx == 3
rsp == 4
rbp == 5
rsi == 6
rdi == 7

stateTraceInstructions == 1
stateEndEmulation == 2

Cur == [ regs |-> regs, rip |-> rip, rflags |-> rflags, mem |-> mem,
         rfs |-> rfs, rgs |-> rgs,
         prefix_rex |-> prefix_rex, prefix_size |-> prefix_size,
         prefix_sse2_repeat |-> prefix_sse2_repeat,
         prefix_segment |-> prefix_segment,
         rexW |-> rexW, rexR |-> rexR, rexX |-> rexX, rexB |-> rexB,
         rm |-> rm, reg |-> reg, mod |-> mod,
         sibScale |-> sibScale, sibIndex |-> sibIndex, sibBase |-> sibBase,
         displacement |-> displacement,
         x87_fpu_control_word |-> x87_fpu_control_word,
         x87_fpu_status_word |-> x87_fpu_status_word,
         fregs |-> fregs, fp_sp |-> fp_sp, xregs |-> xregs,
         g_State |-> g_State,
         instruction_count |-> instruction_count,
         status |-> status, hook |-> hook, oob |-> oob,
         ndebug |-> ndebug, tracer_enabled |-> tracer_enabled,
         pc |-> pc, op |-> op ]

\* the bytes that are prefixes of an instruction in 64-bit mode: the segment
\* overrides, operand and address size, lock, the repeats and REX
prefix_bytes == {38, 46, 54, 62, 100, 101, 102, 103, 240, 242, 243} \cup 64..79

\* the step from Cur to t completes an instruction: the arm of an opcode that
\* is not a prefix ran to its end
InsnDone(t) == /\ status = "run" /\ pc = "switch" /\ op \notin prefix_bytes
               /\ t.status = "run"

\* the variables take the values of the record t; the history keeps Cur, and
\* keeps it as start when Cur is at the top of the loop (the counter has just
\* been incremented)
Commit(t) ==
    /\ regs' = t.regs /\ rip' = t.rip /\ rflags' = t.rflags /\ mem' = t.mem
    /\ rfs' = t.rfs /\ rgs' = t.rgs
    /\ prefix_rex' = t.prefix_rex /\ prefix_size' = t.prefix_size
    /\ prefix_sse2_repeat' = t.prefix_sse2_repeat
    /\ prefix_segment' = t.prefix_segment
    /\ rexW' = t.rexW /\ rexR' = t.rexR /\ rexX' = t.rexX /\ rexB' = t.rexB
    /\ rm' = t.rm /\ reg' = t.reg /\ mod' = t.mod
    /\ sibScale' = t.sibScale /\ sibIndex' = t.sibIndex /\ sibBase' = t.sibBase
    /\ displacement' = t.displacement /\ g_State' = t.g_State
    /\ x87_fpu_control_word' = t.x87_fpu_control_word
    /\ x87_fpu_status_word' = t.x87_fpu_status_word
    /\ fregs' = t.fregs /\ fp_sp' = t.fp_sp /\ xregs' = t.xregs
    /\ instruction_count' = t.instruction_count
    /\ status' = t.status /\ hook' = t.hook /\ oob' = t.oob
    /\ ndebug' = t.ndebug /\ tracer_enabled' = t.tracer_enabled
    /\ pc' = t.pc /\ op' = t.op
    /\ prev' = Cur
    /\ start' = IF prev.instruction_count # instruction_count THEN Cur ELSE start
    /\ earlier' = IF prev.instruction_count # instruction_count THEN start
                  ELSE earlier
    /\ executed' = IF status \in {"idle", "returned"} THEN 0
                   ELSE IF InsnDone(t) THEN executed + 1 ELSE executed
    /\ insn_rip' = IF status \in {"idle", "returned"} \/ InsnDone(t) THEN t.rip
                   ELSE insn_rip

Running(s) == s.status = "run"
\* F applied to s unless an earlier step already left run()
Then(s, F(_)) == IF Running(s) THEN F(s) ELSE s

\* emulator_hard_termination: it does not return
emulator_hard_termination(s, msg) ==
    [s EXCEPT !.status = "terminated", !.hook = msg]

\* g_State |= stateEndEmulation
end_emulation(s) ==
    [s EXCEPT !.g_State = IF (@ \div stateEndEmulation) % 2 = 1 THEN @
                          ELSE @ + stateEndEmulation]

\* emulator_invoke_svc, the host's system-call dispatcher: it returns, and on
\* the exit call (rax = 60) it has called end_emulation()
sys_exit == 60
emulator_invoke_svc(s) ==
    IF s.regs[rax] = FromNat(sys_exit, 8) THEN end_emulation(s) ELSE s

(***************************************************************************)
(* Memory image.  getmem computes the host pointer membase + offset, with  *)
(* membase = mem - base, and compares it with mem and beyond; with         *)
(* idx = offset - base (modulo 2^64) that is the test idx < mem_size.      *)
(***************************************************************************)

getoffset(address) == Sub(address, base)
is_address_valid(offset) == ULt(getoffset(offset), mem_size)

\* the bytes offset .. offset + w - 1 all lie in the buffer
WithinBuffer(offset, w) ==
    /\ is_address_valid(offset)
    /\ ToNat(Trunc(getoffset(offset), 2)) + w <= MemSize

\* getmem(offset) followed by the access of w bytes through the pointer it
\* returns.  The debug build checks the pointer to the first byte only; the
\* NDEBUG build checks nothing.  An access that touches a host byte outside
\* the buffer is undefined behaviour: run() is left in status "undefined".
getmem(s, offset, w) ==
    IF ~s.ndebug /\ ~is_address_valid(offset)
    THEN emulator_hard_termination(s, "memory reference outside address space")
    ELSE IF WithinBuffer(offset, w) THEN s
    ELSE [s EXCEPT !.status = "undefined", !.oob = TRUE]

\* the w bytes at offset (getui8/16/32/64), once getmem let the access pass
getui(s, offset, w) ==
    LET o == ToNat(Trunc(getoffset(offset), 2))
    IN IF WithinBuffer(offset, w) THEN Vec([k \in 1..w |-> s.mem[o + k]]) ELSE Zero(w)

\* setui8/16/32/64 once getmem let the access pass
setui(s, offset, val) ==
    LET o == ToNat(Trunc(getoffset(offset), 2))
    IN [s EXCEPT !.mem = Vec([k \in 1..MemSize |->
                            IF k > o /\ k <= o + Len(val) THEN val[k - o] ELSE @[k]])]

(***************************************************************************)
(* Flags.                                                                  *)
(***************************************************************************)

flag(s, n) == (s.rflags \div Pow2(n)) % 2 = 1
setflag(s, n, f) ==
    [s EXCEPT !.rflags = @ - (IF flag(s, n) THEN Pow2(n) ELSE 0)
                           + (IF f THEN Pow2(n) ELSE 0)]
flag_c(s) == flag(s, 0)
flag_p(s) == flag(s, 2)
flag_a(s) == flag(s, 4)
flag_z(s) == flag(s, 6)
flag_s(s) == flag(s, 7)
flag_o(s) == flag(s, 11)
flag_d(s) == flag(s, 10)
setflag_c(s, f) == setflag(s, 0, f)
setflag_p(s, f) == setflag(s, 2, f)
setflag_a(s, f) == setflag(s, 4, f)
setflag_z(s, f) == setflag(s, 6, f)
setflag_s(s, f) == setflag(s, 7, f)
setflag_o(s, f) == setflag(s, 11, f)

\* x ^= x >> 4; x ^= x >> 2; x ^= x >> 1; return !(x & 1)
is_parity_even8(x) ==
    LET x1 == BitOp("xor", x, x \div 16, 8)
        x2 == BitOp("xor", x1, x1 \div 4, 8)
        x3 == BitOp("xor", x2, x2 \div 2, 8)
    IN x3 % 2 = 0

set_PSZ(s, val) ==
    setflag_s(setflag_z(setflag_p(s, is_parity_even8(val[1])), IsZero(val)),
              val_signed(val))

reset_carry_overflow(s) == setflag_o(setflag_c(s, FALSE), FALSE)

CBit(s) == IF flag_c(s) THEN 1 ELSE 0

(***************************************************************************)
(* Register views (reg8_t): q, d, w, b and the legacy high byte h.         *)
(***************************************************************************)

reg_q(s, i) == s.regs[i]
reg_d(s, i) == Trunc(s.regs[i], 4)
reg_w(s, i) == Trunc(s.regs[i], 2)
reg_b(s, i) == Trunc(s.regs[i], 1)
reg_h(s, i) == << s.regs[i][2] >>

\* regs[i].q = val
set_q(s, i, val) == [s EXCEPT !.regs[i] = val]
\* regs[i].d = val, regs[i].w = val, regs[i].b = val: the other bytes stay
set_low(s, i, val) ==
    [s EXCEPT !.regs[i] = Vec([k \in 1..8 |-> IF k <= Len(val) THEN val[k] ELSE @[k]])]
\* regs[i].h = val
set_h(s, i, val) ==
    [s EXCEPT !.regs[i] = Vec([k \in 1..8 |-> IF k = 2 THEN val[1] ELSE @[k]])]

(***************************************************************************)
(* Decoder.                                                                *)
(***************************************************************************)

\* x |= 8
Or8(x) == IF (x \div 8) % 2 = 1 THEN x ELSE x + 8

sign_extend(x, w) == SExt(x, w)

\* the value get_rip8/16/32/64 returns, and the machine after it
rip_val(s, w) == getui(s, s.rip, w)
get_rip(s, w) == Then(getmem(s, s.rip, w), LAMBDA t : [t EXCEPT !.rip = AddNat(@, w)])

clear_decoding(s) ==
    [s EXCEPT !.rexW = 0, !.rexR = 0, !.rexX = 0, !.rexB = 0,
              !.rm = 0, !.reg = 0, !.mod = 0,
              !.sibScale = 0, !.sibIndex = 0, !.sibBase = 0,
              !.displacement = Zero(8)]

decode_rex(s) ==
    IF s.prefix_rex = 0
    THEN [s EXCEPT !.rexB = 0, !.rexX = 0, !.rexR = 0, !.rexW = 0]
    ELSE LET W == (s.prefix_rex \div 8) % 2
             R == (s.prefix_rex \div 4) % 2
             X == (s.prefix_rex \div 2) % 2
             B == s.prefix_rex % 2
         IN [s EXCEPT !.rexW = W, !.rexR = R, !.rexX = X, !.rexB = B,
                      !.reg = IF R = 1 THEN Or8(@) ELSE @,
                      !.rm = IF B = 1 THEN Or8(@) ELSE @]

\* the displacement that follows ModR/M or SIB: w bytes, sign-extended
decode_displacement(s, w) ==
    LET d == rip_val(s, w)
    IN Then(get_rip(s, w), LAMBDA t : [t EXCEPT !.displacement = sign_extend(d, 8)])

decode_sib(s) ==
    LET sib == rip_val(s, 1)[1]
        b3 == sib % 8
    IN Then(get_rip(s, 1), LAMBDA t :
        LET t1 == [t EXCEPT !.sibScale = sib \div 64,
                            !.sibIndex = IF t.rexX = 1 THEN Or8((sib \div 8) % 8)
                                         ELSE (sib \div 8) % 8,
                            !.sibBase = b3]
            t2 == IF t.mod = 2 \/ (t.mod = 0 /\ b3 = 5) THEN decode_displacement(t1, 4)
                  ELSE IF t.mod = 1 THEN decode_displacement(t1, 1)
                  ELSE t1
        IN Then(t2, LAMBDA u : IF u.rexB = 1 THEN [u EXCEPT !.sibBase = Or8(@)] ELSE u))

decode_rm(s) ==
    LET modRM == rip_val(s, 1)[1]
        saved_rm == modRM % 8
    IN Then(get_rip(s, 1), LAMBDA t :
        LET t1 == decode_rex([t EXCEPT !.rm = saved_rm,
                                       !.reg = (modRM \div 8) % 8,
                                       !.mod = modRM \div 64])
        IN IF t1.mod < 3
           THEN IF saved_rm = 4 THEN decode_sib(t1)
                ELSE IF t1.mod = 2 \/ (t1.mod = 0 /\ saved_rm = 5)
                     THEN decode_displacement(t1, 4)
                ELSE IF t1.mod = 1 THEN decode_displacement(t1, 1)
                ELSE t1
           ELSE t1)

\* prefix_segment is 0, 0x64 or 0x65: the unhandled() branch is unreachable
effective_address(s) ==
    LET idx == Shl(s.regs[s.sibIndex], s.sibScale)
        ea == IF s.mod < 3
              THEN IF s.rm % 8 = 4
                   THEN IF s.mod = 0
                        THEN IF s.sibIndex = 4
                             THEN IF s.sibBase % 8 = 5 THEN s.displacement
                                  ELSE s.regs[s.sibBase]
                             ELSE IF s.sibBase % 8 = 5 THEN Add(idx, s.displacement)
                             ELSE Add(s.regs[s.sibBase], idx)
                        ELSE IF s.sibIndex = 4
                             THEN Add(s.regs[s.sibBase], s.displacement)
                             ELSE Add(Add(s.regs[s.sibBase], idx), s.displacement)
                   ELSE IF s.mod = 0
                        THEN IF s.rm % 8 = 5 THEN Add(s.rip, s.displacement)
                             ELSE s.regs[s.rm]
                        ELSE Add(s.regs[s.rm], s.displacement)
              ELSE s.regs[s.rm]
    IN IF s.prefix_segment = 100 THEN Add(ea, s.rfs)
       ELSE IF s.prefix_segment = 101 THEN Add(ea, s.rgs)
       ELSE ea

op_width(s) == IF s.rexW = 1 THEN 8 ELSE IF s.prefix_size = 102 THEN 2 ELSE 4

(***************************************************************************)
(* Operand access.                                                         *)
(***************************************************************************)

\* the r/m operand is ah, ch, dh or bh; the same test on the reg operand
rm_is_high(s) == s.prefix_rex = 0 /\ s.rm >= 4
reg_is_high(s) == s.prefix_rex = 0 /\ s.reg >= 4

get_reg8(s) == IF reg_is_high(s) THEN reg_h(s, s.reg % 4) ELSE reg_b(s, s.reg)
set_reg8(s, val) == IF reg_is_high(s) THEN set_h(s, s.reg % 4, val)
                    ELSE set_low(s, s.reg, val)

\* the bounds check of the access to a memory r/m operand of w bytes
rm_access(s, w) == IF s.mod < 3 THEN getmem(s, effective_address(s), w) ELSE s

\* get_rm8/16/32/64
get_rm(s, w) ==
    IF s.mod < 3 THEN getui(s, effective_address(s), w)
    ELSE IF w = 1 /\ rm_is_high(s) THEN reg_h(s, s.rm % 4)
    ELSE Trunc(s.regs[s.rm], w)

\* set_rm8, set_rm16, set_rm32 (no zero-extend) and set_rm64
set_rm(s, val) ==
    IF s.mod < 3 THEN setui(s, effective_address(s), val)
    ELSE IF Len(val) = 1 /\ rm_is_high(s) THEN set_h(s, s.rm % 4, val)
    ELSE set_low(s, s.rm, val)

\* set_rm32z: a register destination is zero-extended
set_rm32z(s, val) ==
    IF s.mod < 3 THEN setui(s, effective_address(s), val)
    ELSE set_q(s, s.rm, ZExt(val, 8))

\* * get_rm_ptr8() = val
set_rm_ptr8(s, val) == set_rm(s, val)

\* push( val ) in 64-bit mode
push(s, val) ==
    LET sp == SubNat(s.regs[rsp], 8)
        t == set_q(s, rsp, sp)
    IN Then(getmem(t, sp, 8), LAMBDA u : setui(u, sp, val))

\* pop() that reads the value and leaves rsp where it was
pop_keeps_rsp(s) ==
    LET sp == s.regs[rsp]
    IN [s |-> getmem(s, sp, 8), v |-> getui(s, sp, 8)]

\* pop() in 64-bit mode: the value read and the machine after it
pop(s) ==
    LET sp == s.regs[rsp]
    IN [s |-> Then(getmem(s, sp, 8), LAMBDA u : set_q(u, rsp, AddNat(sp, 8))),
        v |-> getui(s, sp, 8)]

(***************************************************************************)
(* Flag engine.  An operation on a value returns [s |-> the machine with   *)
(* its flags updated, v |-> the result].  T is the C++ type of the         *)
(* operands; a T narrower than int is promoted to int in an expression.    *)
(***************************************************************************)

Promote(x) == IF Len(x) < 4 THEN ZExt(x, 4) ELSE x

op_add(s, a, b, carry) ==
    LET w == Len(a)
        c == IF carry THEN 1 ELSE 0
        result == Add3(a, b, c)
        s1 == set_PSZ(s, result)
        \* ( result < a || result < b ) || ( result < ( a + b ) )
        cf == \/ ULt(result, a)
              \/ ULt(result, b)
              \/ ULt(Promote(result), Add(Promote(a), Promote(b)))
        s2 == setflag_c(s1, cf)
        s3 == setflag_o(s2, ~val_signed(Xor(a, b)) /\ val_signed(Xor(a, result)))
        s4 == setflag_a(s3, (((a[1] % 16) + (b[1] % 16) + c) \div 16) % 2 = 1)
    IN [s |-> s4, v |-> result]

op_sub(s, a, b, borrow) ==
    LET w == Len(a)
        c == IF borrow THEN 1 ELSE 0
        result == Sub3(a, b, c)
        s1 == set_PSZ(s, result)
        \* ( a < b ) || ( ( a - b ) < (T) borrow ): a - b is an int for a narrow T
        cf == \/ ULt(a, b)
              \/ IF w < 4 THEN SLt(Sub(Promote(a), Promote(b)), FromNat(c, 4))
                 ELSE ULt(Sub(a, b), FromNat(c, w))
        s2 == setflag_c(s1, cf)
        s3 == setflag_o(s2, val_signed(Xor(a, b)) /\ val_signed(Xor(a, result)))
        \* ( ( a & 0xf ) - ( b & 0xf ) - borrow ) & ~0xf is non-zero iff the
        \* difference of the nibbles is negative
        s4 == setflag_a(s3, (a[1] % 16) - (b[1] % 16) - c < 0)
    IN [s |-> s4, v |-> result]

op_xor(s, lhs, rhs) ==
    LET r == Xor(lhs, rhs) IN [s |-> reset_carry_overflow(set_PSZ(s, r)), v |-> r]
op_and(s, lhs, rhs) ==
    LET r == And(lhs, rhs) IN [s |-> reset_carry_overflow(set_PSZ(s, r)), v |-> r]
op_or(s, lhs, rhs) ==
    LET r == Or(lhs, rhs) IN [s |-> reset_carry_overflow(set_PSZ(s, r)), v |-> r]

\* do_math: the value left in *pdst (cmp leaves it as it was)
do_math(s, math, dst, src) ==
    CASE math = 0 -> op_add(s, dst, src, FALSE)
      [] math = 1 -> op_or(s, dst, src)
      [] math = 2 -> op_add(s, dst, src, flag_c(s))
      [] math = 3 -> op_sub(s, dst, src, flag_c(s))
      [] math = 4 -> op_and(s, dst, src)
      [] math = 5 -> op_sub(s, dst, src, FALSE)
      [] math = 6 -> op_xor(s, dst, src)
      [] OTHER    -> [s |-> op_sub(s, dst, src, FALSE).s, v |-> dst]

mk_signed(x) == [x EXCEPT ![Len(x)] = IF @ >= 128 THEN @ ELSE @ + 128]
top2bits(x) == x[Len(x)] \div 64
Bit6(x) == (x[1] \div 64) % 2 = 1      \* 0 != ( val & 0x40 )

\* the loop of op_rol: << value, last carry >> after n more rounds
RECURSIVE rol_loop(_, _, _)
rol_loop(val, cf, n) ==
    IF n = 0 \/ Len(val) = 0 THEN << val, cf >>
    ELSE LET highBit == val_signed(val)
         IN rol_loop(Shl1(val, IF highBit THEN 1 ELSE 0), highBit, n - 1)

op_rol(s, original, shift) ==
    IF shift = 0 THEN [s |-> s, v |-> original]
    ELSE LET r == rol_loop(original, flag_c(s), shift)
             val == r[1]
             s1 == setflag_c(s, r[2])
             s2 == IF shift = 1
                   THEN setflag_o(s1, val_signed(val) # val_signed(original))
                   ELSE s1
         IN [s |-> s2, v |-> val]

RECURSIVE ror_loop(_, _, _)
ror_loop(val, cf, n) ==
    IF n = 0 \/ Len(val) = 0 THEN << val, cf >>
    ELSE LET lowBit == val[1] % 2 = 1
             v1 == Shr1(val, 0)
         IN ror_loop(IF lowBit THEN mk_signed(v1) ELSE v1, lowBit, n - 1)

op_ror(s, original, shift) ==
    IF shift = 0 THEN [s |-> s, v |-> original]
    ELSE LET r == ror_loop(original, flag_c(s), shift)
             val == r[1]
             s1 == setflag_c(s, r[2])
             s2 == IF shift = 1 THEN setflag_o(s1, val_signed(val) # Bit6(val))
                   ELSE s1
         IN [s |-> s2, v |-> val]

RECURSIVE rcl_loop(_, _, _)
rcl_loop(val, cf, n) ==
    IF n = 0 \/ Len(val) = 0 THEN << val, cf >>
    ELSE rcl_loop(Shl1(val, IF cf THEN 1 ELSE 0), val_signed(val), n - 1)

op_rcl(s, original, shift) ==
    IF shift = 0 THEN [s |-> s, v |-> original]
    ELSE LET r == rcl_loop(original, flag_c(s), shift)
             val == r[1]
             s1 == setflag_c(s, r[2])
             s2 == IF shift = 1 THEN setflag_o(s1, val_signed(val) # flag_c(s1))
                   ELSE s1
         IN [s |-> s2, v |-> val]

\* mk_signed( val ) is called for its value, which is dropped
RECURSIVE rcr_loop(_, _, _)
rcr_loop(val, cf, n) ==
    IF n = 0 \/ Len(val) = 0 THEN << val, cf >>
    ELSE rcr_loop(Shr1(val, 0), val[1] % 2 = 1, n - 1)

op_rcr(s, original, shift) ==
    IF shift = 0 THEN [s |-> s, v |-> original]
    ELSE LET r == rcr_loop(original, flag_c(s), shift)
             val == r[1]
             s1 == setflag_c(s, r[2])
             s2 == setflag_o(s1, val_signed(val) # Bit6(val))
         IN [s |-> s2, v |-> val]

RECURSIVE sal_loop(_, _, _)
sal_loop(x, cf, n) ==
    IF n = 0 \/ Len(x) = 0 THEN << x, cf >>
    ELSE sal_loop(Shl1(x, 0), val_signed(x), n - 1)

op_sal(s, x0, shift) ==
    LET s1 == IF shift = 1 THEN setflag_o(s, top2bits(x0) = 3) ELSE s
        r == sal_loop(x0, flag_c(s1), shift)
        s2 == setflag_c(s1, r[2])
    IN [s |-> set_PSZ(s2, r[1]), v |-> r[1]]

op_shr(s, x0, shift) ==
    LET s1 == IF shift = 1 THEN setflag_o(s, val_signed(x0)) ELSE s
        x == Shr(x0, shift)
    IN [s |-> set_PSZ(s1, x), v |-> x]

op_sar(s, x0, shift) ==
    LET s1 == IF shift = 1 THEN setflag_o(s, FALSE) ELSE s
        x == Sar(x0, shift)
    IN [s |-> set_PSZ(s1, x), v |-> x]

unhandled(s) == emulator_hard_termination(s, "opcode not handled")

\* assert( cond ) with a false cond: abort() unless NDEBUG compiled it away
assert_failed(s) == IF s.ndebug THEN s ELSE [s EXCEPT !.status = "aborted"]

op_shift(s, val, operation, shift) ==
    CASE operation = 0 -> op_rol(s, val, shift)
      [] operation = 1 -> op_ror(s, val, shift)
      [] operation = 2 -> op_rcl(s, val, shift)
      [] operation = 3 -> op_rcr(s, val, shift)
      [] operation = 4 -> op_sal(s, val, shift)
      [] operation = 5 -> op_shr(s, val, shift)
      [] operation = 6 -> [s |-> unhandled(s), v |-> val]
      [] operation = 7 -> op_sar(s, val, shift)
      [] OTHER         -> [s |-> assert_failed(s), v |-> val]

(***************************************************************************)
(* Helpers of the 128-bit arithmetic of <djl_128.hxx>, which is not part   *)
(* of the sources at hand: the exact products and quotients.               *)
(***************************************************************************)

\* CMultiply128::mul_s64_s64: the signed product, 16 bytes (low half first)
mul_s64_s64(a, b) == MulT(SExt(a, 16), SExt(b, 16))
\* CMultiply128::mul_u64_u64
mul_u64_u64(a, b) == UMul(a, b)
\* divideUInt128ByUInt64: << quotient, remainder >>, 8 bytes each
divideUInt128ByUInt64(dividend, divisor) ==
    << Trunc(UDiv(dividend, divisor), 8), Trunc(UMod(dividend, divisor), 8) >>
\* divide_i128_by_i64
divide_i128_by_i64(dividend, divisor) ==
    << Trunc(SDiv(dividend, SExt(divisor, 16)), 8),
       Trunc(SMod(dividend, SExt(divisor, 16)), 8) >>

(***************************************************************************)
(* The opcode arms of run().  Each takes the machine after the opcode byte *)
(* was fetched and returns the machine at the end of the arm.              *)
(***************************************************************************)

\* the operand width of the arms that test _rexW, then 0x66
WidthOf(s) == op_width(s)

\* math r/m8, r8: 0x00 0x08 0x10 0x18 0x20 0x28 0x30 0x38
arm_math_rm8_r8(s0, o) ==
    Then(decode_rm(s0), LAMBDA s1 :
    Then(rm_access(s1, 1), LAMBDA s :
        LET math == (o \div 8) % 8
            r == do_math(s, math, get_rm(s, 1), get_reg8(s))
        IN set_rm_ptr8(r.s, r.v)))

\* math r/m, r: 0x01 0x09 0x11 0x19 0x21 0x29 0x31 0x39
arm_math_rm_r(s0, o) ==
    Then(decode_rm(s0), LAMBDA s1 :
    LET w == WidthOf(s1)
        math == (o \div 8) % 8
    IN Then(rm_access(s1, w), LAMBDA s :
        LET r == do_math(s, math, get_rm(s, w), Trunc(s.regs[s.reg], w))
        IN IF math = 7 THEN r.s
           ELSE IF w = 4 THEN set_rm32z(r.s, r.v)
           ELSE set_rm(r.s, r.v)))

\* math r8, r/m8: 0x02 0x0a 0x12 0x1a 0x22 0x2a 0x32 0x3a
arm_math_r8_rm8(s0, o) ==
    Then(decode_rm(s0), LAMBDA s1 :
    Then(rm_access(s1, 1), LAMBDA s :
        LET math == (o \div 8) % 8
        IN IF s.rexW = 1
           THEN LET r == do_math(s, math, reg_q(s, s.reg), sign_extend(get_rm(s, 1), 8))
                IN set_q(r.s, s.reg, r.v)
           ELSE LET r == do_math(s, math, reg_b(s, s.reg), get_rm(s, 1))
                IN IF math = 7 THEN r.s
                   ELSE set_q(r.s, s.reg, ZExt(r.v, 8))))

\* math r, r/m: 0x03 0x0b 0x13 0x1b 0x23 0x2b 0x33 0x3b
arm_math_r_rm(s0, o) ==
    Then(decode_rm(s0), LAMBDA s1 :
    LET w == WidthOf(s1)
        math == (o \div 8) % 8
    IN Then(rm_access(s1, w), LAMBDA s :
        LET r == do_math(s, math, Trunc(s.regs[s.reg], w), get_rm(s, w))
            t == set_low(r.s, s.reg, r.v)
        IN IF w = 4 /\ math # 7 THEN set_q(t, s.reg, ZExt(reg_d(t, s.reg), 8))
           ELSE t))

\* math al, imm8: 0x04 0x0c 0x14 0x1c 0x24 0x2c 0x34 0x3c
arm_math_al_imm8(s0, o) ==
    LET imm == rip_val(s0, 1)
        math == (o \div 8) % 8
    IN Then(get_rip(s0, 1), LAMBDA s :
        LET r == do_math(s, math, reg_b(s, rax), imm)
        IN IF math = 7 THEN r.s ELSE set_low(r.s, rax, r.v))

\* math ax, imm16 / eax, imm32 / rax, se(imm32): 0x05 0x0d ... 0x3d
arm_math_ax_imm(s0, o) ==
    LET s1 == decode_rex(s0)
        w == WidthOf(s1)
        iw == IF w = 2 THEN 2 ELSE 4
        imm == rip_val(s1, iw)
        math == (o \div 8) % 8
    IN Then(get_rip(s1, iw), LAMBDA s :
        IF w = 8
        THEN LET r == do_math(s, math, reg_q(s, rax), sign_extend(imm, 8))
             IN set_q(r.s, rax, r.v)
        ELSE LET r == do_math(s, math, Trunc(s.regs[rax], w), imm)
             IN IF math = 7 THEN r.s ELSE set_q(r.s, rax, ZExt(r.v, 8)))

\* assert( math <= 7 ) at the top of do_math: REX.R makes _reg 8 .. 15
do_math_assert(s) == IF s.reg > 7 THEN assert_failed(s) ELSE s

\* 0x80: math r/m8, imm8.  The immediate is read before the operand.
arm_math_rm8_imm8(s0) ==
    Then(decode_rm(s0), LAMBDA s1 :
    LET value == rip_val(s1, 1)
    IN Then(get_rip(s1, 1), LAMBDA s2 :
       Then(rm_access(s2, 1), LAMBDA s3 :
       Then(do_math_assert(s3), LAMBDA s :
           LET r == do_math(s, s.reg, get_rm(s, 1), value)
           IN set_rm_ptr8(r.s, r.v)))))

\* 0x81: math r/m, imm16 / imm32 / se(imm32)
arm_math_rm_imm_operand_first(s0) ==
    Then(decode_rm(s0), LAMBDA s1 :
    LET w == WidthOf(s1)
        iw == IF w = 2 THEN 2 ELSE 4
        imm == IF w = 8 THEN sign_extend(rip_val(s1, 4), 8) ELSE rip_val(s1, iw)
    IN Then(rm_access(s1, w), LAMBDA s2 :
       Then(get_rip(s2, iw), LAMBDA s3 :
       Then(do_math_assert(s3), LAMBDA s :
           LET r == do_math(s, s.reg, get_rm(s1, w), imm)
               at == [r.s EXCEPT !.rip = s1.rip]
               out == IF w = 4 THEN set_rm32z(at, r.v) ELSE set_rm(at, r.v)
           IN IF s.reg = 7 THEN r.s ELSE [out EXCEPT !.rip = s.rip]))))
arm_math_rm_imm(s0) ==
    Then(decode_rm(s0), LAMBDA s1 :
    LET w == WidthOf(s1)
        iw == IF w = 2 THEN 2 ELSE 4
        imm == IF w = 8 THEN sign_extend(rip_val(s1, 4), 8) ELSE rip_val(s1, iw)
    IN Then(get_rip(s1, iw), LAMBDA s2 :
       Then(rm_access(s2, w), LAMBDA s3 :
       Then(do_math_assert(s3), LAMBDA s :
           LET r == do_math(s, s.reg, get_rm(s, w), imm)
           IN IF s.reg = 7 THEN r.s
              ELSE IF w = 4 THEN set_rm32z(r.s, r.v)
              ELSE set_rm(r.s, r.v)))))

\* 0x83: math r/m, se(imm8)
arm_math_rm_imm8(s0) ==
    Then(decode_rm(s0), LAMBDA s1 :
    LET w == WidthOf(s1)
        imm == sign_extend(rip_val(s1, 1), w)
    IN Then(get_rip(s1, 1), LAMBDA s2 :
       Then(rm_access(s2, w), LAMBDA s3 :
       Then(do_math_assert(s3), LAMBDA s :
           LET r == do_math(s, s.reg, get_rm(s, w), imm)
           IN IF s.reg = 7 THEN r.s
              ELSE IF w = 4 THEN set_rm32z(r.s, r.v)
              ELSE set_rm(r.s, r.v)))))

\* 0x84: test r/m8, r8
arm_test_rm8_r8(s0) ==
    Then(decode_rm(s0), LAMBDA s1 :
    Then(rm_access(s1, 1), LAMBDA s :
        reset_carry_overflow(set_PSZ(s, And(get_rm(s, 1), get_reg8(s))))))

\* 0x85: test r/m, reg
arm_test_rm_r(s0) ==
    Then(decode_rm(s0), LAMBDA s1 :
    LET w == WidthOf(s1)
    IN Then(rm_access(s1, w), LAMBDA s :
        reset_carry_overflow(
            set_PSZ(s, And(get_rm(s, w), Trunc(s.regs[s.reg], w))))))

\* 0xa8: test al, imm8
arm_test_al_imm8(s0) ==
    LET imm == rip_val(s0, 1)
    IN Then(get_rip(s0, 1), LAMBDA s : op_and(s, reg_b(s, rax), imm).s)

\* 0xa9: test ax, imm16 / eax, imm32 / rax, se(imm32): the 64-bit branch is
\* taken with any REX prefix
arm_test_ax_imm(s0) ==
    LET s1 == decode_rex(s0)
        w == IF s1.prefix_rex # 0 THEN 8 ELSE IF s1.prefix_size = 102 THEN 2 ELSE 4
        iw == IF w = 2 THEN 2 ELSE 4
        imm == IF w = 8 THEN sign_extend(rip_val(s1, 4), 8) ELSE rip_val(s1, iw)
    IN Then(get_rip(s1, iw), LAMBDA s :
           op_and(s, Trunc(s.regs[rax], w), imm).s)

\* the flags and the value of the 16- and 32-bit imul r, r/m[, imm] forms:
\* a and b are the operands in the type of the wide product
imul_narrow(s, a, b, w) ==
    LET wide == MulT(a, b)
        narrow == Trunc(wide, w)
        s1 == setflag_o(s, val_signed(wide) # val_signed(narrow))
    IN [s |-> setflag_c(s1, flag_o(s1)), wide |-> wide, narrow |-> narrow]

\* the 64-bit forms: the 128-bit product of mul_s64_s64
imul_wide(s, a, b) ==
    LET p == mul_s64_s64(a, b)
        L == Trunc(p, 8)
        s1 == setflag_o(s, val_signed(p) # val_signed(L))
    IN [s |-> setflag_c(s1, flag_o(s1)), wide |-> p, narrow |-> L]

\* 0x0f 0xaf: imul r, r/m
arm_imul_r_rm(s0) ==
    Then(decode_rm(s0), LAMBDA s1 :
    LET w == WidthOf(s1)
    IN Then(rm_access(s1, w), LAMBDA s :
        IF w = 8
        THEN LET r == imul_wide(s, reg_q(s, s.reg), get_rm(s, 8))
             IN set_q(r.s, s.reg, r.narrow)
        ELSE IF w = 2
        THEN LET r == imul_narrow(s, SExt(reg_w(s, s.reg), 4), SExt(get_rm(s, 2), 4), 2)
             IN set_q(r.s, s.reg, ZExt(r.narrow, 8))
        ELSE LET r == imul_narrow(s, SExt(reg_d(s, s.reg), 8), SExt(get_rm(s, 4), 8), 4)
             IN set_q(r.s, s.reg, r.wide)))

\* 0x69: imul reg, r/m, imm16/imm32
arm_imul_69(s0) ==
    Then(decode_rm(s0), LAMBDA s1 :
    LET w == WidthOf(s1)
        iw == IF w = 2 THEN 2 ELSE 4
        imm == rip_val(s1, iw)
    IN Then(get_rip(s1, iw), LAMBDA s2 :
       Then(rm_access(s2, w), LAMBDA s :
        IF w = 8
        THEN LET r == imul_wide(s, get_rm(s, 8), sign_extend(imm, 8))
             IN set_q(r.s, s.reg, r.narrow)
        ELSE IF w = 2
        THEN LET r == imul_narrow(s, SExt(get_rm(s, 2), 4), ZExt(imm, 4), 2)
             IN set_q(r.s, s.reg, ZExt(r.narrow, 8))
        ELSE LET r == imul_narrow(s, SExt(get_rm(s, 4), 8), ZExt(imm, 8), 4)
             IN set_q(r.s, s.reg, ZExt(r.narrow, 8)))))

\* 0x6b: imul reg, r/m, se(imm8)
arm_imul_6b(s0) ==
    Then(decode_rm(s0), LAMBDA s1 :
    LET w == WidthOf(s1)
        imm8 == rip_val(s1, 1)
    IN Then(get_rip(s1, 1), LAMBDA s2 :
       Then(rm_access(s2, w), LAMBDA s :
        IF w = 8
        THEN LET r == imul_wide(s, get_rm(s, 8), sign_extend(imm8, 8))
             IN set_q(r.s, s.reg, r.narrow)
        ELSE IF w = 2
        THEN LET r == imul_narrow(s, SExt(get_rm(s, 2), 4), SExt(imm8, 4), 2)
             IN set_q(r.s, s.reg, ZExt(r.narrow, 8))
        ELSE LET r == imul_narrow(s, SExt(get_rm(s, 4), 8), SExt(imm8, 8), 4)
             IN set_q(r.s, s.reg, ZExt(r.narrow, 8)))))

\* 0x0f 0x18: prefetch
arm_prefetch(s0) ==
    Then(decode_rm(s0), LAMBDA s : IF s.reg \in 0..3 THEN s ELSE unhandled(s))

\* 0x88: mov r/m8, r8
arm_mov_rm8_r8(s0) ==
    Then(decode_rm(s0), LAMBDA s1 :
    Then(rm_access(s1, 1), LAMBDA s : set_rm(s, get_reg8(s))))

\* 0x89: mov r/m, reg
arm_mov_rm_r(s0) ==
    Then(decode_rm(s0), LAMBDA s1 :
    LET w == WidthOf(s1)
    IN Then(rm_access(s1, w), LAMBDA s :
        IF w = 4 THEN set_rm32z(s, reg_d(s, s.reg))
        ELSE set_rm(s, Trunc(s.regs[s.reg], w))))

\* 0x8a: mov r8, r/m8
arm_mov_r8_rm8(s0) ==
    Then(decode_rm(s0), LAMBDA s1 :
    Then(rm_access(s1, 1), LAMBDA s : set_reg8(s, get_rm(s, 1))))

\* 0x8b: mov reg, r/m
arm_mov_r_rm(s0) ==
    Then(decode_rm(s0), LAMBDA s1 :
    LET w == WidthOf(s1)
    IN Then(rm_access(s1, w), LAMBDA s : set_q(s, s.reg, ZExt(get_rm(s, w), 8))))

\* 0xc6: mov r/m8, imm8
arm_mov_rm8_imm8(s0) ==
    Then(decode_rm(s0), LAMBDA s1 :
        IF s1.reg = 0
        THEN LET imm == rip_val(s1, 1)
             IN Then(get_rip(s1, 1), LAMBDA s2 :
                Then(rm_access(s2, 1), LAMBDA s : set_rm(s, imm)))
        ELSE unhandled(s1))

\* 0xc7: mov r/m, imm16 / imm32 / se(imm32)
arm_mov_rm_imm(s0) ==
    Then(decode_rm(s0), LAMBDA s1 :
    LET w == WidthOf(s1)
        iw == IF w = 2 THEN 2 ELSE 4
        imm == IF w = 8 THEN sign_extend(rip_val(s1, 4), 8) ELSE rip_val(s1, iw)
    IN Then(get_rip(s1, iw), LAMBDA s2 :
       Then(rm_access(s2, w), LAMBDA s :
           IF w = 4 THEN set_rm32z(s, imm) ELSE set_rm(s, imm))))

\* 0x8d: lea
arm_lea(s0) ==
    Then(decode_rm(s0), LAMBDA s :
        set_q(s, s.reg, ZExt(Trunc(effective_address(s), WidthOf(s)), 8)))

\* the count mask of the shift arms for an operand of w bytes
shift_mask(w) == IF w = 8 THEN 63 ELSE IF w = 2 THEN 15 ELSE 31

\* val = get_rm(); op_shift( &val, _reg, shift ); set_rm( val )
shift_rm(s1, shift) ==
    LET w == WidthOf(s1)
    IN Then(rm_access(s1, w), LAMBDA s :
        LET r == op_shift(s, get_rm(s, w), s.reg, shift)
        IN Then(r.s, LAMBDA t :
            IF w = 4 THEN set_rm32z(t, r.v) ELSE set_rm(t, r.v)))

\* op_shift( get_rm_ptr8(), _reg, shift )
shift_rm8(s1, shift) ==
    Then(rm_access(s1, 1), LAMBDA s :
        LET r == op_shift(s, get_rm(s, 1), s.reg, shift)
        IN Then(r.s, LAMBDA t : set_rm_ptr8(t, r.v)))

\* 0xc0: shift r/m8, imm8
arm_shift_rm8_imm8(s0) ==
    Then(decode_rm(s0), LAMBDA s1 :
    LET shift == rip_val(s1, 1)[1]
    IN Then(get_rip(s1, 1), LAMBDA s2 :
        IF shift = 0 THEN s2 ELSE shift_rm8(s2, shift % 8)))

\* 0xc1: shift r/m, imm8
arm_shift_rm_imm8(s0) ==
    Then(decode_rm(s0), LAMBDA s1 :
    LET shift == rip_val(s1, 1)[1]
    IN Then(get_rip(s1, 1), LAMBDA s2 :
        IF shift = 0 THEN s2
        ELSE shift_rm(s2, shift % (shift_mask(WidthOf(s2)) + 1))))

\* 0xd0: shift r/m8, 1
arm_shift_rm8_1(s0) == Then(decode_rm(s0), LAMBDA s1 : shift_rm8(s1, 1))

\* 0xd1: shift r/m, 1
arm_shift_rm_1(s0) == Then(decode_rm(s0), LAMBDA s1 : shift_rm(s1, 1))

\* 0xd3: shift r/m, cl
arm_shift_rm_cl(s0) ==
    Then(decode_rm(s0), LAMBDA s1 :
    LET shift == reg_b(s1, rcx)[1]
    IN IF shift = 0 THEN s1
       ELSE shift_rm(s1, shift % (shift_mask(WidthOf(s1)) + 1)))

\* 0x50 .. 0x57: push r64
arm_push_reg(s0, o) ==
    LET s == decode_rex([s0 EXCEPT !.rm = o % 8])
    IN push(s, s.regs[s.rm])

\* 0x58 .. 0x5f: pop r64
arm_pop_reg(s0, o) ==
    LET s == decode_rex([s0 EXCEPT !.rm = o % 8])
        r == pop(s)
    IN Then(r.s, LAMBDA t : set_q(t, t.rm, r.v))

\* 0x68: push imm16 / imm32, sign-extended
arm_push_imm(s0) ==
    LET w == IF s0.prefix_size = 102 THEN 2 ELSE 4
        val == sign_extend(rip_val(s0, w), 8)
    IN Then(get_rip(s0, w), LAMBDA s : push(s, val))

\* 0x6a: push imm8, sign-extended
arm_push_imm8(s0) ==
    LET val == sign_extend(rip_val(s0, 1), 8)
    IN Then(get_rip(s0, 1), LAMBDA s : push(s, val))

\* op_sto that moves rdi up whatever the direction flag
op_sto_forward(s0, width) ==
    LET a == s0.regs[rdi]
    IN Then(getmem(s0, a, width), LAMBDA s1 :
        set_q(setui(s1, a, Trunc(s1.regs[rax], width)), rdi, AddNat(a, width)))

\* op_sto( width ): the low width bytes of rax are stored at rdi, rdi moves
op_sto(s0, width) ==
    LET a == s0.regs[rdi]
    IN Then(getmem(s0, a, width), LAMBDA s1 :
        LET s == setui(s1, a, Trunc(s1.regs[rax], width))
        IN set_q(s, rdi, IF flag_d(s) THEN SubNat(a, width) ELSE AddNat(a, width)))

\* op_movs that moves rdi only
op_movs_keeps_rsi(s0, width) ==
    LET from == s0.regs[rsi]
        to == s0.regs[rdi]
    IN Then(getmem(s0, from, width), LAMBDA s1 :
       Then(getmem(s1, to, width), LAMBDA s2 :
        LET s == setui(s2, to, getui(s2, from, width))
        IN set_q(s, rdi, IF flag_d(s) THEN SubNat(to, width) ELSE AddNat(to, width))))

\* op_movs( width ): width bytes are copied from rsi to rdi, both move
op_movs(s0, width) ==
    LET from == s0.regs[rsi]
        to == s0.regs[rdi]
    IN Then(getmem(s0, from, width), LAMBDA s1 :
       Then(getmem(s1, to, width), LAMBDA s2 :
        LET s == setui(s2, to, getui(s2, from, width))
        IN IF flag_d(s)
           THEN set_q(set_q(s, rdi, SubNat(to, width)), rsi, SubNat(from, width))
           ELSE set_q(set_q(s, rdi, AddNat(to, width)), rsi, AddNat(from, width))))

\* while ( 0 != regs[ rcx ].q ) { op_sto( width ); regs[ rcx ].q--; }
RECURSIVE sto_loop(_, _)
sto_loop(s, width) ==
    IF ~Running(s) \/ IsZero(s.regs[rcx]) THEN s
    ELSE sto_loop(Then(op_sto(s, width), LAMBDA t : set_q(t, rcx, SubNat(t.regs[rcx], 1))),
                  width)

\* while ( 0 != regs[ rcx ].q ) { op_movs( width ); regs[ rcx ].q--; }
RECURSIVE movs_loop(_, _)
movs_loop(s, width) ==
    IF ~Running(s) \/ IsZero(s.regs[rcx]) THEN s
    ELSE movs_loop(Then(op_movs(s, width), LAMBDA t : set_q(t, rcx, SubNat(t.regs[rcx], 1))),
                   width)

\* 0xa4: movsb
arm_movsb(s0) ==
    LET s == decode_rex(s0)
    IN IF s.prefix_sse2_repeat # 0 THEN movs_loop(s, 1) ELSE op_movs(s, 1)

\* 0xaa: stosb
arm_stosb(s) ==
    IF s.prefix_sse2_repeat # 0 THEN sto_loop(s, 1) ELSE op_sto(s, 1)

\* 0xc3: ret
arm_ret(s0) ==
    LET r == pop(s0)
    IN Then(r.s, LAMBDA t : [t EXCEPT !.rip = r.v])

\* 0xe8: call rel32
arm_call_rel32(s0) ==
    LET offset == sign_extend(rip_val(s0, 4), 8)
    IN Then(get_rip(s0, 4), LAMBDA s1 :
       Then(push(s1, s1.rip), LAMBDA s : [s EXCEPT !.rip = Add(@, offset)]))

\* 0xe3: jcxz / jecxz / jrcxz rel8
arm_jcxz(s0) ==
    LET rel == sign_extend(rip_val(s0, 1), 8)
    IN Then(get_rip(s0, 1), LAMBDA s :
        LET jump == IsZero(Trunc(s.regs[rcx], WidthOf(s)))
        IN IF jump THEN [s EXCEPT !.rip = Add(@, rel)] ELSE s)

\* 0xf4: hlt
arm_hlt(s) ==
    [s EXCEPT !.g_State = IF (@ \div stateEndEmulation) % 2 = 1 THEN @
                          ELSE @ + stateEndEmulation]

\* 0xf5: cmc
arm_cmc(s) == setflag_c(s, ~flag_c(s))

\* 0xf6 /6 and /7: div and idiv r/m8
div8(s) ==
    LET divisor == ZExt(get_rm(s, 1), 4)
        dividend == ZExt(reg_w(s, rax), 4)
    IN IF IsZero(divisor) THEN s
       ELSE set_h(set_q(s, rax, ZExt(Trunc(UDiv(dividend, divisor), 1), 8)),
                  rax, Trunc(UMod(dividend, divisor), 1))
idiv8(s) ==
    LET divisor == ZExt(get_rm(s, 1), 4)
        dividend == SExt(reg_w(s, rax), 4)
    IN IF IsZero(divisor) THEN s
       ELSE set_h(set_q(s, rax, SExt(Trunc(SDiv(dividend, divisor), 1), 8)),
                  rax, Trunc(SMod(dividend, divisor), 1))

\* 0xf6: test / not / neg / mul / div / idiv r/m8
arm_f6(s0) ==
    Then(decode_rm(s0), LAMBDA s1 :
    IF s1.reg = 0
    THEN LET val == rip_val(s1, 1)
         IN Then(get_rip(s1, 1), LAMBDA s2 :
            Then(rm_access(s2, 1), LAMBDA s : op_and(s, get_rm(s, 1), val).s))
    ELSE IF s1.reg \in {2, 3, 4, 6, 7}
    THEN Then(rm_access(s1, 1), LAMBDA s :
        CASE s.reg = 2 -> set_rm(s, Not(get_rm(s, 1)))
          [] s.reg = 3 ->
               LET val == get_rm(s, 1)
                   t == setflag_c(s, ~IsZero(val))
               IN set_PSZ(set_rm(t, Neg(val)), Neg(val))
          [] s.reg = 4 ->
               LET t == set_q(s, rax, ZExt(UMul(get_rm(s, 1), reg_b(s, rax)), 8))
                   hi == ~IsZero(reg_h(t, rax))
               IN setflag_c(setflag_o(t, hi), hi)
          [] s.reg = 6 -> div8(s)
          [] OTHER -> idiv8(s))
    ELSE unhandled(s1))

\* INT_MIN / -1 in the type of the operands: undefined behaviour in C++
div_overflows(dividend, divisor) ==
    /\ dividend = Vec([i \in 1..Len(dividend) |-> IF i = Len(dividend) THEN 128 ELSE 0])
    /\ divisor = Ones(Len(divisor))
undefined_behaviour(s) == [s EXCEPT !.status = "undefined"]

\* 0xf7 /4: mul
mul_rm(s, w) ==
    IF w = 8
    THEN LET p == mul_u64_u64(reg_q(s, rax), get_rm(s, 8))
         IN set_q(set_q(s, rax, SubSeq(p, 1, 8)), rdx, SubSeq(p, 9, 16))
    ELSE LET result == MulT(ZExt(Trunc(s.regs[rax], w), 2 * w), ZExt(get_rm(s, w), 2 * w))
         IN set_q(set_q(s, rax, ZExt(Trunc(result, w), 8)),
                  rdx, ZExt(SubSeq(result, w + 1, 2 * w), 8))

\* 0xf7 /5: imul
imul_rm(s, w) ==
    IF w = 8
    THEN LET p == mul_s64_s64(reg_q(s, rax), get_rm(s, 8))
         IN set_q(set_q(s, rax, SubSeq(p, 1, 8)), rdx, SubSeq(p, 9, 16))
    ELSE LET result == MulT(SExt(Trunc(s.regs[rax], w), 2 * w), SExt(get_rm(s, w), 2 * w))
         IN set_q(set_q(s, rax, ZExt(Trunc(result, w), 8)),
                  rdx, SExt(SubSeq(result, w + 1, 2 * w), 8))

\* 0xf7 /6: div
div_rm(s, w) ==
    LET divisor == get_rm(s, w) IN
    IF IsZero(divisor) THEN s
    ELSE IF w = 8
    THEN LET qr == divideUInt128ByUInt64(reg_q(s, rax) \o reg_q(s, rdx), divisor)
         IN set_q(set_q(s, rax, qr[1]), rdx, qr[2])
    ELSE LET dividend == Trunc(s.regs[rax], w) \o Trunc(s.regs[rdx], w)
             d == ZExt(divisor, 2 * w)
         IN set_q(set_q(s, rax, ZExt(Trunc(UDiv(dividend, d), w), 8)),
                  rdx, ZExt(Trunc(UMod(dividend, d), w), 8))

\* 0xf7 /7: idiv
idiv_rm(s, w) ==
    LET divisor == get_rm(s, w) IN
    IF IsZero(divisor) THEN s
    ELSE IF w = 8
    THEN LET qr == divide_i128_by_i64(reg_q(s, rax) \o reg_q(s, rdx), divisor)
         IN set_q(set_q(s, rax, qr[1]), rdx, qr[2])
    ELSE LET dividend == Trunc(s.regs[rax], w) \o Trunc(s.regs[rdx], w)
             d == SExt(divisor, 2 * w)
             q == Trunc(SDiv(dividend, d), w)
             r == Trunc(SMod(dividend, d), w)
         IN IF div_overflows(dividend, d) THEN undefined_behaviour(s)
            ELSE IF w = 2 THEN set_q(set_low(s, rax, q), rdx, ZExt(r, 8))
            ELSE set_q(set_q(s, rax, ZExt(q, 8)), rdx, ZExt(r, 8))

\* 0xf7: test / not / neg / mul / imul / div / idiv r/m
arm_f7(s0) ==
    Then(decode_rm(s0), LAMBDA s1 :
    LET w == WidthOf(s1) IN
    IF s1.reg = 0
    THEN LET iw == IF w = 2 THEN 2 ELSE 4
             val == IF w = 8 THEN sign_extend(rip_val(s1, 4), 8) ELSE rip_val(s1, iw)
         IN Then(get_rip(s1, iw), LAMBDA s2 :
            Then(rm_access(s2, w), LAMBDA s : op_and(s, get_rm(s, w), val).s))
    ELSE IF s1.reg \in 2..7
    THEN Then(rm_access(s1, w), LAMBDA s :
        CASE s.reg = 2 -> set_rm(s, Not(get_rm(s, w)))
          [] s.reg = 3 ->
               LET val == get_rm(s, w)
                   t == setflag_c(s, ~IsZero(val))
               IN set_rm(set_PSZ(t, Neg(val)), Neg(val))
          [] s.reg = 4 -> mul_rm(s, w)
          [] s.reg = 5 -> imul_rm(s, w)
          [] s.reg = 6 -> div_rm(s, w)
          [] OTHER -> idiv_rm(s, w))
    ELSE unhandled(s1))

\* 0xfe: inc / dec r/m8
arm_fe(s0) ==
    Then(decode_rm(s0), LAMBDA s1 :
    IF s1.reg \in {0, 1}
    THEN Then(rm_access(s1, 1), LAMBDA s :
        LET val == IF s.reg = 0 THEN AddNat(get_rm(s, 1), 1) ELSE SubNat(get_rm(s, 1), 1)
            t == set_PSZ(set_rm_ptr8(s, val), val)
        IN setflag_o(t, IsZero(val)))
    ELSE unhandled(s1))

\* 0xff /0 and /1: inc / dec r/m with set_rm16, set_rm32, set_rm64
incdec_rm(s1) ==
    LET w == WidthOf(s1)
    IN Then(rm_access(s1, w), LAMBDA s :
        LET val == IF s.reg = 0 THEN AddNat(get_rm(s, w), 1) ELSE SubNat(get_rm(s, w), 1)
            of == IF s.reg = 0 THEN IsZero(val) ELSE val = Ones(w)
        IN set_rm(setflag_o(set_PSZ(s, val), of), val))

\* 0xff: inc / dec / call / jmp / push r/m
arm_ff(s0) ==
    Then(decode_rm(s0), LAMBDA s1 :
    CASE s1.reg \in {0, 1} -> incdec_rm(s1)
      [] s1.reg = 2 ->
           Then(push(s1, s1.rip), LAMBDA s2 :
           Then(rm_access(s2, 8), LAMBDA s : [s EXCEPT !.rip = get_rm(s, 8)]))
      [] s1.reg = 4 ->
           Then(rm_access(s1, 8), LAMBDA s : [s EXCEPT !.rip = get_rm(s, 8)])
      [] s1.reg = 6 ->
           IF s1.prefix_size = 102 THEN unhandled(s1)
           ELSE Then(rm_access(s1, 8), LAMBDA s : push(s, get_rm(s, 8)))
      [] OTHER -> unhandled(s1))

\* x << n and x >> n of a uint64_t, 0 <= n <= 63: whole bytes first
shl_u64(x, n) == Shl(Zero(n \div 8) \o SubSeq(x, 1, 8 - (n \div 8)), n % 8)
shr_u64(x, n) == Shr(SubSeq(x, (n \div 8) + 1, 8) \o Zero(n \div 8), n % 8)

\* bitscan(): the index of the lowest set bit, counted up from bit 0 while x
\* is shifted right.  (Eight rounds of the loop are taken at once while the
\* low byte is zero.)
RECURSIVE bitscan_loop(_, _)
bitscan_loop(x, bit) ==
    IF bit > 63 \/ IsZero(x) THEN 0
    ELSE IF x[1] = 0 THEN bitscan_loop(shr_u64(x, 8), bit + 8)
    ELSE IF Bit(x, 0) = 1 THEN bit
    ELSE bitscan_loop(Shr1(x, 0), bit + 1)
bitscan(x) == bitscan_loop(x, 0)

\* bitscan_reverse(): the index of the highest set bit, counted down from 63
\* while x is shifted left.  (Eight rounds at once while the high byte is
\* zero.)
RECURSIVE bitscan_reverse_loop(_, _)
bitscan_reverse_loop(x, bit) ==
    IF bit < 0 \/ IsZero(x) THEN 0
    ELSE IF x[8] = 0 THEN bitscan_reverse_loop(shl_u64(x, 8), bit - 8)
    ELSE IF Bit(x, 63) = 1 THEN bit
    ELSE bitscan_reverse_loop(Shl1(x, 0), bit - 1)
bitscan_reverse_lowest(x) == bitscan_loop(x, 0)
bitscan_reverse(x) == bitscan_reverse_loop(x, 63)

\* float80_t as the native 10-byte long double: the 64-bit mantissa with its
\* integer bit, the 15-bit exponent field (biased by 16383) and the sign
ld_mant(f) == SubSeq(f, 1, 8)
ld_expf(f) == f[9] + 256 * (f[10] % 128)
ld_sign(f) == f[10] \div 128
ld_make(sign, expf, mant) == mant \o << expf % 256, (expf \div 256) + 128 * sign >>
ld_is_zero(f) == ld_expf(f) = 0 /\ IsZero(ld_mant(f))
my_isnan(f) == ld_expf(f) = 32767 /\ ~IsZero(Shl1(ld_mant(f), 0))

\* (long double) (int64_t) v: every 64-bit integer is a long double
ld_from_int(v) ==
    IF IsZero(v) THEN Zero(10)
    ELSE LET mag == IF val_signed(v) THEN Neg(v) ELSE v
             e == bitscan_reverse(mag)
         IN ld_make(IF val_signed(v) THEN 1 ELSE 0, 16383 + e, shl_u64(mag, 63 - e))

\* the integer n (|n| < 2^31) as an int64_t
int_vec(n) == IF n < 0 THEN Neg(FromNat(0 - n, 8)) ELSE FromNat(n, 8)

\* |f| towards zero as a uint64_t, for a finite f with |f| < 2^64
ld_trunc_mag(f) ==
    LET e == ld_expf(f) - 16383
    IN IF e < 0 THEN Zero(8) ELSE IF e > 63 THEN ld_mant(f)
       ELSE shr_u64(ld_mant(f), 63 - e)
\* f is finite, |f| < 2^64, and f has a fraction
ld_has_fraction(f) ==
    LET e == ld_expf(f) - 16383
    IN ~ld_is_zero(f) /\ (e < 0 \/ (e < 63 /\ shl_u64(ld_trunc_mag(f), 63 - e) # ld_mant(f)))
\* |f| > n or |f| >= n, for a finite f and a uint64_t n
ld_mag_gt(f, n) ==
    \/ ld_expf(f) - 16383 > 63
    \/ ULt(n, ld_trunc_mag(f))
    \/ ld_trunc_mag(f) = n /\ ld_has_fraction(f)
\* (int64_t) f: towards zero; outside the range the conversion delivers the
\* integer indefinite value
int_from_ld(f) ==
    IF ld_expf(f) - 16383 > 63 \/ ld_mag_gt(f, shl_u64(FromNat(1, 8), 63))
       \/ (ld_sign(f) = 0 /\ ld_expf(f) - 16383 = 63)
    THEN shl_u64(FromNat(1, 8), 63)
    ELSE IF ld_sign(f) = 1 THEN Neg(ld_trunc_mag(f)) ELSE ld_trunc_mag(f)

\* round_i32_from_double( d, rm ): the mode is 0 nearest (round(): halves away from
\* zero), 1 floor, 2 ceiling, 3 truncate
round_i32_from_double(f, mode) ==
    LET e == ld_expf(f) - 16383
        int32_max == FromNat(2147483647, 8)
        neg == ld_sign(f) = 1
        mag == ld_trunc_mag(f)
        half == e = -1 \/ (e \in 0..62 /\ Bit(ld_mant(f), 62 - e) = 1)
        up == CASE mode = 0 -> half
                [] mode = 1 -> neg /\ ld_has_fraction(f)
                [] mode = 2 -> ~neg /\ ld_has_fraction(f)
                [] mode = 3 -> FALSE
        r == IF up THEN AddNat(mag, 1) ELSE mag
    IN IF ld_expf(f) = 32767 THEN Trunc(int32_max, 4)
       ELSE IF ~neg /\ ld_mag_gt(f, int32_max) THEN Trunc(int32_max, 4)
       ELSE IF neg /\ ld_mag_gt(f, AddNat(int32_max, 1))
       THEN Trunc(Neg(AddNat(int32_max, 1)), 4)
       ELSE Trunc(IF neg THEN Neg(r) ELSE r, 4)

\* a + b and a - b of do_fadd and do_fsub for finite operands; the operands
\* here are integers below 2^62 in magnitude, whose sum is exact
ld_small_int(f) == ~ld_has_fraction(f) /\ ld_expf(f) - 16383 < 62
do_fadd(a, b) ==
    CASE ld_small_int(a) /\ ld_small_int(b) ->
           ld_from_int(Add(int_from_ld(a), int_from_ld(b)))
do_fsub(a, b) ==
    CASE ld_small_int(a) /\ ld_small_int(b) ->
           ld_from_int(Sub(int_from_ld(a), int_from_ld(b)))

\* tanl, sinl and cosl at zero, where they are exact
tanl(x) == CASE ld_is_zero(x) -> x
sinl(x) == CASE ld_is_zero(x) -> x
cosl(x) == CASE ld_is_zero(x) -> ld_from_int(FromNat(1, 8))
\* frexpl: the fraction in [1/2, 1) and the exponent of a finite x
frexpl(x) ==
    IF ld_is_zero(x) THEN [significand |-> x, exponent |-> 0]
    ELSE [significand |-> ld_make(ld_sign(x), 16382, ld_mant(x)),
          exponent |-> ld_expf(x) - 16382]

\* compare_floating( a, b )
fccG == 0
fccL == 1
fccE == 2
fccU == 3
ld_abs_lt(a, b) ==
    \/ ld_expf(a) < ld_expf(b)
    \/ ld_expf(a) = ld_expf(b) /\ ULt(ld_mant(a), ld_mant(b))
ld_eq(a, b) == (ld_is_zero(a) /\ ld_is_zero(b)) \/ a = b
ld_lt(a, b) ==
    IF ld_is_zero(a) /\ ld_is_zero(b) THEN FALSE
    ELSE IF ld_sign(a) # ld_sign(b) THEN ld_sign(a) = 1
    ELSE IF ld_sign(a) = 1 THEN ld_abs_lt(b, a) ELSE ld_abs_lt(a, b)
compare_floating_without_nan(a, b) ==
    IF ld_eq(a, b) THEN fccE ELSE IF ld_lt(a, b) THEN fccL ELSE fccG
compare_floating(a, b) ==
    IF my_isnan(a) \/ my_isnan(b) THEN fccU
    ELSE IF ld_eq(a, b) THEN fccE
    ELSE IF ld_lt(a, b) THEN fccL
    ELSE fccG

\* a double and a float as the value they denote, in the layout of the long
\* double above: compare_floating<double> and compare_floating<float>
\* compare these values (every double and every float is a long double)
ld_from_double(d) ==
    LET sign == d[8] \div 128
        expf == (d[8] % 128) * 16 + (d[7] \div 16)
        frac == << d[1], d[2], d[3], d[4], d[5], d[6], d[7] % 16, 0 >>
        top == shl_u64(frac, 11)
        mant == [top EXCEPT ![8] = @ + 128]
    IN IF expf = 0 /\ IsZero(frac) THEN ld_make(sign, 0, Zero(8))
       ELSE IF expf = 0
       THEN LET e == bitscan_reverse(frac)
            IN ld_make(sign, 16383 - 1074 + e, shl_u64(frac, 63 - e))
       ELSE IF expf = 2047 THEN ld_make(sign, 32767, mant)
       ELSE ld_make(sign, expf - 1023 + 16383, mant)
ld_from_float(f) ==
    LET sign == f[4] \div 128
        expf == (f[4] % 128) * 2 + (f[3] \div 128)
        frac == << f[1], f[2], f[3] % 128, 0, 0, 0, 0, 0 >>
        top == shl_u64(frac, 40)
        mant == [top EXCEPT ![8] = @ + 128]
    IN IF expf = 0 /\ IsZero(frac) THEN ld_make(sign, 0, Zero(8))
       ELSE IF expf = 0
       THEN LET e == bitscan_reverse(frac)
            IN ld_make(sign, 16383 - 149 + e, shl_u64(frac, 63 - e))
       ELSE IF expf = 255 THEN ld_make(sign, 32767, mant)
       ELSE ld_make(sign, expf - 127 + 16383, mant)

\* float_d9_e8_constants[]: doubles (1.0, 3.3219280949, 1.44269504088,
\* 3.14159265358979, 0.301029995664, 0.6931471805599453, 0.0) as long doubles
float_d9_e8_constants ==
    << << 0, 0, 0, 0, 0, 0, 0, 128, 255, 63 >>,
       << 0, 216, 148, 208, 75, 120, 154, 212, 0, 64 >>,
       << 0, 112, 42, 87, 41, 59, 170, 184, 255, 63 >>,
       << 0, 136, 104, 33, 162, 218, 15, 201, 0, 64 >>,
       << 0, 144, 218, 251, 132, 154, 32, 154, 253, 63 >>,
       << 0, 120, 207, 209, 247, 23, 114, 177, 254, 63 >>,
       << 0, 0, 0, 0, 0, 0, 0, 0, 0, 0 >> >>

\* push_fp, pop_fp, peek_fp and poke_fp on the ring of 8 slots; offset is a
\* uint8_t
push_fp_stays_at_0(s, f80) ==
    LET sp == IF s.fp_sp = 0 THEN 0 ELSE s.fp_sp - 1
    IN [s EXCEPT !.fp_sp = sp, !.fregs[sp] = f80]
push_fp(s, f80) ==
    LET sp == IF s.fp_sp = 0 THEN 7 ELSE s.fp_sp - 1
    IN [s EXCEPT !.fp_sp = sp, !.fregs[sp] = f80]
pop_fp_keeps_sp(s) == [s |-> s, v |-> s.fregs[s.fp_sp]]
pop_fp(s) == [s |-> [s EXCEPT !.fp_sp = (@ + 1) % 8], v |-> s.fregs[s.fp_sp]]
peek_fp(s, offset) == s.fregs[((offset + s.fp_sp) % 256) % 8]
poke_fp(s, offset, f80) ==
    [s EXCEPT !.fregs[((offset + s.fp_sp) % 256) % 8] = f80]

\* set_x87_status_bit( bit, val )
set_x87_status_bit(s, bit, val) ==
    LET byte == (bit \div 8) + 1
        mask == Pow2(bit % 8)
        old == s.x87_fpu_status_word[byte]
        new == old - (IF (old \div mask) % 2 = 1 THEN mask ELSE 0)
                   + (IF val THEN mask ELSE 0)
    IN [s EXCEPT !.x87_fpu_status_word[byte] = new]
set_x87_status_c2(s, val) == set_x87_status_bit(s, 10, val)

\* update_x87_status_top(): bits 11..13 of the status word become fp_sp
update_x87_status_top(s) ==
    [s EXCEPT !.x87_fpu_status_word[2] = (@ % 8) + 8 * s.fp_sp + 64 * (@ \div 64)]

\* set_eflags_from_fcc( fcc )
set_eflags_from_fcc(s, fcc) ==
    LET t == setflag_s(setflag_a(setflag_o(s, FALSE), FALSE), FALSE)
    IN setflag_c(setflag_p(setflag_z(t, fcc \in {fccU, fccE}), fcc = fccU),
                 fcc \in {fccU, fccL})

\* 0xd9: the second bytes that one of the tests of the arm names
ops_d9_listed == 192..208 \cup {224, 225, 228, 229} \cup 232..238 \cup 240..255

\* 0xd9: fld st(i), fxch, fnop, the constants, fptan, fxtract, fdecstp,
\* fincstp, fsincos, and the else branch that decodes the second byte as
\* ModR/M: /4 fldenv, /5 fldcw, /6 fnstenv, /7 fnstcw, /1 unhandled().  (The
\* other transcendentals and the m32fp forms are outside this model.)
arm_d9(s0) ==
    LET op1 == rip_val(s0, 1)[1]
        offset == op1 % 8
    IN Then(get_rip(s0, 1), LAMBDA s :
        CASE op1 \in 192..199 -> push_fp(s, peek_fp(s, offset))
          [] op1 \in 200..207 ->
               LET tmp == peek_fp(s, 0)
               IN poke_fp(poke_fp(s, 0, peek_fp(s, offset)), offset, tmp)
          [] op1 = 208 -> s
          [] op1 \in 232..238 -> push_fp(s, float_d9_e8_constants[offset + 1])
          [] op1 = 242 ->
               LET t == set_x87_status_c2(s, FALSE)
               IN push_fp(poke_fp(t, 0, tanl(peek_fp(t, 0))),
                          ld_from_int(FromNat(1, 8)))
          [] op1 = 244 ->
               LET r == frexpl(peek_fp(s, 0))
               IN push_fp(poke_fp(s, 0, ld_from_int(int_vec(r.exponent))),
                          r.significand)
          [] op1 = 246 -> [s EXCEPT !.fp_sp = IF @ = 0 THEN 7 ELSE @ - 1]
          [] op1 = 247 -> [s EXCEPT !.fp_sp = (@ + 1) % 8]
          [] op1 = 251 ->
               LET top == peek_fp(s, 0)
               IN push_fp(poke_fp(s, 0, sinl(top)), cosl(top))
          [] op1 \notin ops_d9_listed ->
               Then(decode_rm([s EXCEPT !.rip = SubNat(@, 1)]), LAMBDA d :
                 CASE d.reg = 4 ->
                        Then(getmem(d, effective_address(d), 4), LAMBDA t :
                          LET p == getui(t, effective_address(t), 4)
                          IN [t EXCEPT !.x87_fpu_status_word = SubSeq(p, 1, 2),
                                       !.x87_fpu_control_word = SubSeq(p, 3, 4)])
                   [] d.reg = 5 ->
                        Then(rm_access(d, 2), LAMBDA t :
                          [t EXCEPT !.x87_fpu_control_word = get_rm(t, 2)])
                   [] d.reg = 6 ->
                        Then(getmem(d, effective_address(d), 4), LAMBDA t :
                          setui(t, effective_address(t),
                                t.x87_fpu_status_word \o t.x87_fpu_control_word))
                   [] d.reg = 7 ->
                        Then(rm_access(d, 2), LAMBDA t :
                          set_rm(t, t.x87_fpu_control_word))
                   [] d.reg \notin {0, 2, 3, 4, 5, 6, 7} -> unhandled(d)))

\* get_x87_rounding_mode(): bits 10 and 11 of the control word
get_x87_rounding_mode(s) == (s.x87_fpu_control_word[2] \div 4) % 4

\* 0xdb: the second bytes that one of the tests of the arm names
ops_db_listed == 192..223 \cup 232..247

\* 0xdb, the else branch: /0 fild m32int, /3 fistp m32int, /5 fld m80fp,
\* /7 fstp m80fp.  (fcmovcc, fcomi and fucomi are outside this model.)
arm_db(s0) ==
    LET op1 == rip_val(s0, 1)[1]
    IN Then(get_rip(s0, 1), LAMBDA s :
        CASE op1 \notin ops_db_listed ->
               Then(decode_rm([s EXCEPT !.rip = SubNat(@, 1)]), LAMBDA d :
                 CASE d.reg = 0 ->
                        Then(rm_access(d, 4), LAMBDA t :
                          push_fp(t, ld_from_int(SExt(get_rm(t, 4), 8))))
                   [] d.reg = 3 ->
                        LET p == pop_fp(d)
                        IN Then(rm_access(p.s, 4), LAMBDA t :
                             set_rm(t, round_i32_from_double(
                                           p.v, get_x87_rounding_mode(t))))
                   [] d.reg = 5 ->
                        Then(getmem(d, effective_address(d), 10), LAMBDA t :
                          push_fp(t, getui(t, effective_address(t), 10)))
                   [] d.reg = 7 ->
                        LET p == pop_fp(d)
                        IN Then(getmem(p.s, effective_address(p.s), 10), LAMBDA t :
                             setui(t, effective_address(t), p.v))
                   [] d.reg \in {1, 2, 4, 6} -> unhandled(d)))

\* 0xdd: fstp st(i), and unhandled() in the else branch.  (The m64fp forms
\* /0, /2 and /3 are outside this model.)
arm_dd(s0) ==
    LET op1 == rip_val(s0, 1)[1]
        offset == op1 % 8
    IN Then(get_rip(s0, 1), LAMBDA s :
        CASE op1 \in 216..223 -> pop_fp(poke_fp(s, offset, peek_fp(s, 0))).s
          [] op1 \notin 216..223 ->
               Then(decode_rm([s EXCEPT !.rip = SubNat(@, 1)]), LAMBDA d :
                 CASE d.reg \notin {0, 2, 3} -> unhandled(d)))

\* 0xde: fsubrp, fsubp, faddp, and the else branch with /0 fiadd m16int.
\* (fmulp, fdivrp and fdivp are outside this model.)
arm_de(s0) ==
    LET op1 == rip_val(s0, 1)[1]
        offset == op1 % 8
    IN Then(get_rip(s0, 1), LAMBDA s :
        CASE op1 \in 224..231 ->
               pop_fp(poke_fp(s, offset,
                              do_fsub(peek_fp(s, 0), peek_fp(s, offset)))).s
          [] op1 \in 232..239 ->
               pop_fp(poke_fp(s, offset,
                              do_fsub(peek_fp(s, offset), peek_fp(s, 0)))).s
          [] op1 \in 192..199 ->
               pop_fp(poke_fp(s, offset,
                              do_fadd(peek_fp(s, 0), peek_fp(s, offset)))).s
          [] op1 \notin 192..207 \cup 224..255 ->
               Then(decode_rm([s EXCEPT !.rip = SubNat(@, 1)]), LAMBDA d :
                 IF d.reg = 0
                 THEN Then(rm_access(d, 2), LAMBDA t :
                        poke_fp(t, 0, do_fadd(peek_fp(t, 0),
                                              ld_from_int(SExt(get_rm(t, 2), 8)))))
                 ELSE unhandled(d)))

\* 0xdf: fucomip and fcomip, fnstsw ax, and without a repeat prefix the else
\* branch: /0 fild m16int, /3 fistp m16int, /5 fild m64int, /7 fistp m64int
arm_df(s0) ==
    LET op1 == rip_val(s0, 1)[1]
        offset == op1 % 8
    IN Then(get_rip(s0, 1), LAMBDA s :
        IF op1 \in 232..247
        THEN LET fcc == compare_floating(peek_fp(s, 0), peek_fp(s, offset))
             IN pop_fp(set_eflags_from_fcc(s, fcc)).s
        ELSE IF op1 = 224
        THEN LET t == update_x87_status_top(s)
             IN set_q(t, rax, ZExt(t.x87_fpu_status_word, 8))
        ELSE IF s.prefix_sse2_repeat = 0
        THEN Then(decode_rm([s EXCEPT !.rip = SubNat(@, 1)]), LAMBDA d :
               CASE d.reg = 0 ->
                      Then(rm_access(d, 2), LAMBDA t :
                        push_fp(t, ld_from_int(SExt(get_rm(t, 2), 8))))
                 [] d.reg = 3 ->
                      LET p == pop_fp(d)
                          val == p.v
                          over == IF ld_sign(val) = 0
                                  THEN ld_mag_gt(val, FromNat(32767, 8))
                                  ELSE ld_mag_gt(val, FromNat(32768, 8))
                          ival == IF over THEN Neg(FromNat(32768, 8))
                                  ELSE int_from_ld(val)
                      IN Then(rm_access(p.s, 2), LAMBDA t :
                           set_rm(t, Trunc(ival, 2)))
                 [] d.reg = 5 ->
                      Then(rm_access(d, 8), LAMBDA t :
                        push_fp(t, ld_from_int(get_rm(t, 8))))
                 [] d.reg = 7 ->
                      LET p == pop_fp(d)
                      IN Then(rm_access(p.s, 8), LAMBDA t :
                           set_rm(t, int_from_ld(p.v)))
                 [] d.reg \in {1, 2, 4, 6} -> unhandled(d))
        ELSE unhandled(s))

\* the second bytes of 0x0f without a case in the switch on op1: its default
ops_0f_default ==
    0..4 \cup 6..15 \cup 25..29 \cup 32..39 \cup {43, 45} \cup 48..63 \cup {83}
    \cup 119..125 \cup {160, 161} \cup 166..170 \cup {178, 180, 181, 184, 185,
    187, 195, 199, 208, 209, 220, 221, 224, 225, 227, 232, 233, 236, 237,
    240, 241, 245, 247, 255}

\* 0x0f 0xbc: bsf r, r/m
arm_bsf(s0) ==
    Then(decode_rm(s0), LAMBDA s1 :
    Then(rm_access(s1, op_width(s1)), LAMBDA s :
        LET val == ZExt(get_rm(s, op_width(s)), 8)
        IN set_q(setflag_z(s, IsZero(val)), s.reg, FromNat(bitscan(val), 8))))

\* 0x0f 0xbd: bsr r, r/m
arm_bsr(s0) ==
    Then(decode_rm(s0), LAMBDA s1 :
    Then(rm_access(s1, op_width(s1)), LAMBDA s :
        LET val == ZExt(get_rm(s, op_width(s)), 8)
        IN set_q(setflag_z(s, IsZero(val)), s.reg,
                 FromNat(bitscan_reverse(val), 8))))

\* vec16_t: get32( e ) / get64( e ), set32( e, val ) / set64( e, val ), zero()
vec_get(v, e, w) == SubSeq(v, e * w + 1, e * w + w)
vec_set(v, e, val) ==
    LET w == Len(val)
    IN Vec([k \in 1..16 |-> IF k > e * w /\ k <= e * w + w THEN val[k - e * w]
                            ELSE v[k]])
\* get_rmx32( e ) / get_rmx64( e ) and the bounds check of their getmem
rmx_access(s, e, w) ==
    IF s.mod < 3 THEN getmem(s, AddNat(effective_address(s), w * e), w) ELSE s
get_rmx(s, e, w) ==
    IF s.mod < 3 THEN getui(s, AddNat(effective_address(s), w * e), w)
    ELSE vec_get(s.xregs[s.rm], e, w)

\* the compare of the low doubles (0x66) or the low floats of xregs[ _reg ]
\* and the r/m operand, and set_eflags_from_fcc
compare_low(s0, w) ==
    Then(rmx_access(s0, 0, w), LAMBDA s :
        LET a == vec_get(s.xregs[s.reg], 0, w)
            b == get_rmx(s, 0, w)
            fcc == IF w = 8
                   THEN compare_floating(ld_from_double(a), ld_from_double(b))
                   ELSE compare_floating(ld_from_float(a), ld_from_float(b))
        IN set_eflags_from_fcc(s, fcc))

\* 0x0f 0x2e: ucomisd (0x66), ucomiss; unhandled() with a repeat prefix
arm_ucomis(s0) ==
    Then(decode_rm(s0), LAMBDA s :
        IF s.prefix_sse2_repeat = 0
        THEN IF s.prefix_size = 102 THEN compare_low(s, 8) ELSE compare_low(s, 4)
        ELSE unhandled(s))

\* 0x0f 0x2f: comisd (0x66), comiss (no repeat prefix), else unhandled()
arm_comis(s0) ==
    Then(decode_rm(s0), LAMBDA s :
        IF s.prefix_size = 102 THEN compare_low(s, 8)
        ELSE IF s.prefix_sse2_repeat = 0 THEN compare_low(s, 4)
        ELSE unhandled(s))

\* 0x0f 0x6e: movd xmm, r/m32 and movq xmm, r/m64 (0x66), else unhandled()
arm_movd_6e(s0) ==
    Then(decode_rm(s0), LAMBDA s1 :
        IF s1.prefix_size = 102
        THEN LET w == IF s1.rexW = 1 THEN 8 ELSE 4
             IN Then(rm_access(s1, w), LAMBDA s :
                  [s EXCEPT !.xregs[s.reg] = vec_set(Zero(16), 0, get_rm(s, w))])
        ELSE unhandled(s1))

\* 0x0f 0x6f: movdqa (0x66) / movdqu (0xf3) xmm, xmm/m128, else unhandled()
arm_movdq_6f(s0) ==
    Then(decode_rm(s0), LAMBDA s1 :
        IF s1.prefix_size = 102 \/ s1.prefix_sse2_repeat = 243
        THEN Then(rmx_access(s1, 0, 8), LAMBDA s2 :
             LET s3 == [s2 EXCEPT !.xregs[s2.reg] = vec_set(@, 0, get_rmx(s2, 0, 8))]
             IN Then(rmx_access(s3, 1, 8), LAMBDA s :
                  [s EXCEPT !.xregs[s.reg] = vec_set(@, 1, get_rmx(s, 1, 8))]))
        ELSE unhandled(s1))

\* 0x0f 0x7e: movq xmm, xmm/m64 (0xf3); movd / movq r/m, xmm (0x66); else
\* unhandled()
arm_movd_7e(s0) ==
    IF s0.prefix_sse2_repeat = 243
    THEN Then(decode_rm(s0), LAMBDA s1 :
         Then(rmx_access(s1, 0, 8), LAMBDA s :
           [s EXCEPT !.xregs[s.reg] = vec_set(@, 0, get_rmx(s, 0, 8))]))
    ELSE IF s0.prefix_size = 102
    THEN Then(decode_rm(s0), LAMBDA s1 :
           IF s1.rexW = 1
           THEN Then(rm_access(s1, 8), LAMBDA s :
                  set_rm(s, vec_get(s.xregs[s.reg], 0, 8)))
           ELSE Then(rm_access(s1, 4), LAMBDA s :
                  set_rm32z(s, vec_get(s.xregs[s.reg], 0, 4))))
    ELSE unhandled(s0)

\* 0x0f 0xd6: movq r/m64, xmm (0x66): set_rm64, else unhandled()
arm_movq_d6(s0) ==
    Then(decode_rm(s0), LAMBDA s1 :
        IF s1.prefix_size = 102
        THEN Then(rm_access(s1, 8), LAMBDA s :
               set_rm(s, vec_get(s.xregs[s.reg], 0, 8)))
        ELSE unhandled(s1))

\* what a build makes of a shift the language leaves undefined, x >> n and
\* x << n with n not below the width of the promoted type: the count taken
\* modulo the width, as the shift instructions of x64 and AArch64 take it,
\* or every bit shifted out
over_shift_builds == {"masked", "shifted_out"}
with_build(s, u) == [over_shift |-> u] @@ s

\* x >> n (2), (signed) x >> n (4) and x << n (6) on a 32-bit type
shift32(s, kind, x, n) ==
    LET c == IF n < 32 THEN n ELSE IF s.over_shift = "masked" THEN n % 32 ELSE 32
    IN CASE kind = 2 -> Shr(x, c)
         [] kind = 4 -> Sar(x, c)
         [] kind = 6 -> Shl(x, c)
\* x << n and x >> n of a uint64_t, 0 <= n <= 64
shl_u64_any(s, x, n) ==
    IF n < 64 THEN shl_u64(x, n)
    ELSE IF s.over_shift = "masked" THEN x ELSE Zero(8)
shr_u64_any(s, x, n) ==
    IF n < 64 THEN shr_u64(x, n)
    ELSE IF s.over_shift = "masked" THEN x ELSE Zero(8)

\* F applied to each element of w bytes of the vector v
vec_map(v, w, F(_)) ==
    Vec([k \in 1..16 |-> F(vec_get(v, (k - 1) \div w, w))[((k - 1) % w) + 1]])

\* 0x0f 0x71: psrlw / psraw / psllw xmm, imm8 (0x66), else unhandled()
arm_pshift_71(s0) ==
    Then(decode_rm(s0), LAMBDA s1 :
        IF s1.prefix_size = 102
        THEN LET shift == rip_val(s1, 1)[1]
             IN Then(get_rip(s1, 1), LAMBDA s2 :
                 IF s2.reg \in {2, 4, 6}
                 THEN Then(rmx_access(s2, 0, 16), LAMBDA s :
                        LET src == IF s.mod < 3 THEN getui(s, effective_address(s), 16)
                                   ELSE s.xregs[s.rm]
                        IN [s EXCEPT !.xregs[s.rm] =
                              vec_map(src, 2, LAMBDA x :
                                Trunc(shift32(s, s.reg,
                                              IF s.reg = 4 THEN SExt(x, 4) ELSE ZExt(x, 4),
                                              shift), 2))])
                 ELSE unhandled(s2))
        ELSE unhandled(s1))

\* 0x0f 0x72: psrld / psrad / pslld xmm, imm8 (0x66), else unhandled()
arm_pshift_72(s0) ==
    Then(decode_rm(s0), LAMBDA s1 :
        IF s1.prefix_size = 102
        THEN LET shift == rip_val(s1, 1)[1]
             IN Then(get_rip(s1, 1), LAMBDA s :
                 IF s.reg \in {2, 4, 6}
                 THEN [s EXCEPT !.xregs[s.rm] =
                         vec_map(@, 4, LAMBDA x : shift32(s, s.reg, x, shift))]
                 ELSE unhandled(s))
        ELSE unhandled(s1))

\* psrldq / pslldq: the 128 bits shifted by shift bytes, shift <= 15
byte_shift_right(s, v, shift) ==
    LET n == shift * 8
        low == vec_get(v, 0, 8)
        high == vec_get(v, 1, 8)
    IN IF n >= 64 THEN shr_u64(high, n - 64) \o Zero(8)
       ELSE Or(shr_u64(low, n), shl_u64_any(s, high, 64 - n)) \o shr_u64(high, n)
byte_shift_left(s, v, shift) ==
    LET n == shift * 8
        low == vec_get(v, 0, 8)
        high == vec_get(v, 1, 8)
    IN IF n >= 64 THEN Zero(8) \o shl_u64(low, n - 64)
       ELSE shl_u64(low, n) \o Or(shl_u64(high, n), shr_u64_any(s, low, 64 - n))

\* 0x0f 0x73: psrlq / psrldq / psllq / pslldq xmm, imm8 (0x66), else
\* unhandled()
arm_pshift_73(s0) ==
    Then(decode_rm(s0), LAMBDA s1 :
        IF s1.prefix_size = 102
        THEN LET shift == rip_val(s1, 1)[1]
             IN Then(get_rip(s1, 1), LAMBDA s :
                 CASE s.reg = 2 ->
                        [s EXCEPT !.xregs[s.rm] =
                           vec_map(@, 8, LAMBDA x : shr_u64(x, shift % 64))]
                   [] s.reg = 6 ->
                        [s EXCEPT !.xregs[s.rm] =
                           vec_map(@, 8, LAMBDA x : shl_u64(x, shift % 64))]
                   [] s.reg = 3 ->
                        [s EXCEPT !.xregs[s.rm] =
                           IF shift > 15 THEN Zero(16) ELSE byte_shift_right(s, @, shift)]
                   [] s.reg = 7 ->
                        [s EXCEPT !.xregs[s.rm] =
                           IF shift > 15 THEN Zero(16) ELSE byte_shift_left(s, @, shift)]
                   [] OTHER -> unhandled(s))
        ELSE unhandled(s1))

\* the packed shifts by the count in the low quadword of xmm/m128: each
\* element of w bytes of xregs[ _reg ] shifted, or cleared (filled with its
\* sign by psrad) when the count is above 8 * w - 1
pshift_count(s1, w, kind) ==
    IF s1.prefix_size = 102
    THEN Then(rmx_access(s1, 0, 8), LAMBDA s :
           LET count == get_rmx(s, 0, 8)
               wide == ~IsZero(SubSeq(count, 2, 8)) \/ count[1] > 8 * w - 1
               n == count[1]
           IN [s EXCEPT !.xregs[s.reg] =
                 vec_map(@, w, LAMBDA x :
                   IF wide THEN IF kind = 4 /\ val_signed(x) THEN Ones(w) ELSE Zero(w)
                   ELSE CASE kind = 2 -> Shr(x, n)
                          [] kind = 4 -> Sar(x, n)
                          [] kind = 6 -> Shl(x, n))])
    ELSE unhandled(s1)

\* 0x0f 0xd2 psrld, 0xd3 psrlq, 0xf2 pslld, 0xf3 psllq xmm, xmm/m128: a
\* repeat prefix is unhandled()
arm_pshift_count(s0, w, kind) ==
    Then(decode_rm(s0), LAMBDA s1 :
        IF s1.prefix_sse2_repeat # 0 THEN unhandled(s1)
        ELSE pshift_count(s1, w, kind))

\* 0x0f 0xe2: psrad xmm, xmm/m128
arm_psrad_count(s0) ==
    IF s0.prefix_sse2_repeat # 0 THEN unhandled(s0)
    ELSE Then(decode_rm(s0), LAMBDA s1 : pshift_count(s1, 4, 4))

\* 0x0f 0xa2: cpuid
arm_cpuid(s) ==
    IF s.regs[rax] = Zero(8)
    THEN set_q(set_q(set_q(s, rbx, << 71, 101, 110, 117, 0, 0, 0, 0 >>),
                     rdx, << 105, 110, 101, 73, 0, 0, 0, 0 >>),
               rcx, << 110, 116, 101, 108, 0, 0, 0, 0 >>)
    ELSE IF s.regs[rax] = FromNat(1, 8)
    THEN set_q(set_q(set_q(s, rax, Zero(8)), rcx, Zero(8)), rdx, Zero(8))
    ELSE IF Trunc(s.regs[rax], 4) = << 0, 0, 0, 128 >>
    THEN set_q(s, rax, Zero(8))
    ELSE unhandled(s)

\* the second byte of the 0x0f opcodes modelled here
arm_0f(s0) ==
    LET op1 == rip_val(s0, 1)[1]
    IN Then(get_rip(s0, 1), LAMBDA s :
        CASE op1 = 5 -> emulator_invoke_svc(s)
          [] op1 = 24 -> arm_prefetch(s)
          [] op1 = 46 -> arm_ucomis(s)
          [] op1 = 47 -> arm_comis(s)
          [] op1 = 110 -> arm_movd_6e(s)
          [] op1 = 111 -> arm_movdq_6f(s)
          [] op1 = 113 -> arm_pshift_71(s)
          [] op1 = 114 -> arm_pshift_72(s)
          [] op1 = 115 -> arm_pshift_73(s)
          [] op1 = 126 -> arm_movd_7e(s)
          [] op1 = 210 -> arm_pshift_count(s, 4, 2)
          [] op1 = 211 -> arm_pshift_count(s, 8, 2)
          [] op1 = 226 -> arm_psrad_count(s)
          [] op1 = 242 -> arm_pshift_count(s, 4, 6)
          [] op1 = 243 -> arm_pshift_count(s, 8, 6)
          [] op1 = 162 -> arm_cpuid(s)
          [] op1 = 175 -> arm_imul_r_rm(s)
          [] op1 = 188 -> arm_bsf(s)
          [] op1 = 189 -> arm_bsr(s)
          [] op1 = 214 -> arm_movq_d6(s)
          [] op1 \in ops_0f_default -> unhandled(s))

(***************************************************************************)
(* trace_state(): it decodes the instruction at rip to print it, restores  *)
(* rip and clears the decoder scratch.  Only what it does to the machine   *)
(* is modelled: the reads (which are bounds checked), the decoding, the    *)
(* branches that end in unhandled(), and the final clear_decoding().       *)
(***************************************************************************)

HasBit(word, bit) == (word \div bit) % 2 = 1

math_ops(first) == {first + 8 * k : k \in 0..7}
ops_rex == 64..79
ops_modrm == math_ops(0) \cup math_ops(1) \cup math_ops(2) \cup math_ops(3)
             \cup {105, 107, 136, 137, 138, 139, 141, 192, 193, 208, 209, 211,
                   246, 247, 254, 255}
\* the one-byte opcodes without a case in the switch of run(): its default arm
ops_default ==
    {6, 7, 14, 22, 23, 30, 31, 38, 39, 47, 54, 55, 63, 96, 97, 98, 108,
     109, 110, 111, 130, 140, 142, 143, 154, 155, 156, 157, 158, 159, 160,
     161, 162, 163, 166, 167, 172, 173, 174, 175, 194, 196, 197, 200, 202,
     203, 204, 205, 206, 207, 210, 212, 213, 214, 215, 224, 225, 226, 228,
     229, 230, 231, 234, 236, 237, 238, 239, 241}
\* the one-byte opcodes of this model that have an arm in trace_state()
ops_traced == ops_modrm \cup math_ops(4) \cup math_ops(5) \cup ops_rex
              \cup 80..95
              \cup {15, 46, 62, 100, 101, 102, 103, 104, 106, 164, 170, 195, 227, 232,
                    240, 242, 243, 244}

\* the switch of trace_state on the opcode, rip being past the opcode byte
trace_arm(s, o) ==
    CASE o \in ops_modrm ->
           Then(decode_rm(s), LAMBDA d :
             CASE o = 246 -> IF d.reg \in {0, 2, 3, 4, 6, 7} THEN d ELSE unhandled(d)
               [] o = 247 -> IF d.reg \in {0} \cup 2..7 THEN d ELSE unhandled(d)
               [] o = 254 -> IF d.reg \in {0, 1} THEN d ELSE unhandled(d)
               [] o = 255 -> IF d.reg \in {0, 1, 2, 4} \/ (d.reg = 6 /\ d.prefix_size # 102)
                              THEN d ELSE unhandled(d)
               [] OTHER -> d)
      [] o \in math_ops(4) \cup {106, 227} -> get_rip(s, 1)
      [] o \in 80..95 -> decode_rex([s EXCEPT !.rm = o % 8])
      [] o = 104 -> get_rip(s, IF s.prefix_size = 102 THEN 2 ELSE 4)
      [] o = 232 -> get_rip(s, 4)
      [] o = 164 -> decode_rex(s)
      [] o \in math_ops(5) ->
           get_rip(decode_rex(s), IF s.prefix_size = 102 THEN 2 ELSE 4)
      [] o = 15 ->
           LET op1 == rip_val(s, 1)[1]
           IN Then(get_rip(s, 1), LAMBDA t :
               CASE op1 = 5 -> t
                 [] op1 = 24 -> Then(decode_rm(t), LAMBDA d : unhandled(d))
                 [] op1 \in {175, 188, 189} -> decode_rm(t))
      [] o \in ops_traced -> s
      [] o \in ops_default \cup {245} -> unhandled(s)

\* the five bytes at ip that the trace line prints
RECURSIVE trace_bytes(_, _, _)
trace_bytes(s, ip, n) ==
    IF n = 0 THEN s
    ELSE Then(getmem(s, ip, 1), LAMBDA t : trace_bytes(t, AddNat(ip, 1), n - 1))

trace_state(s) ==
    Then(getmem(s, s.rip, 1), LAMBDA s1 :
    LET rip_save == s1.rip
        o == rip_val(s1, 1)[1]
        back == (IF s1.prefix_rex = 0 THEN 0 ELSE 1)
                + (IF s1.prefix_size = 102 THEN 1 ELSE 0)
                + (IF s1.prefix_sse2_repeat # 0 THEN 1 ELSE 0)
        ip == SubNat(s1.rip, back)
    IN IF o = 102 \/ o \in ops_rex \/ o = 243 \/ o = 242 THEN s1
       ELSE Then(trace_bytes(s1, ip, 5), LAMBDA s2 :
            Then(trace_arm([s2 EXCEPT !.rip = AddNat(@, 1)], o), LAMBDA s3 :
                 clear_decoding([s3 EXCEPT !.rip = rip_save]))))

(***************************************************************************)
(* The loop of run().                                                      *)
(***************************************************************************)

\* the top of the for loop: the counter and the prefixes
LoopTop(s) ==
    [s EXCEPT !.instruction_count = @ + 1, !.prefix_rex = 0, !.prefix_size = 0,
              !.prefix_sse2_repeat = 0, !.prefix_segment = 0, !.pc = "head"]

\* the checks under #ifndef NDEBUG after the label _prefix_is_set
debug_checks(s) ==
    IF s.ndebug THEN s
    ELSE IF ULe(s.regs[rsp], Sub(stack_top, stack_size))
    THEN emulator_hard_termination(s, "stack pointer is below stack memory")
    ELSE IF ULt(AddNat(stack_top, 256), s.regs[rsp])
    THEN emulator_hard_termination(s, "stack pointer is above the top of its starting point")
    ELSE IF ULt(s.rip, base)
    THEN emulator_hard_termination(s, "rip is lower than memory")
    ELSE IF ULe(Sub(Add(base, mem_size), stack_size), s.rip)
    THEN emulator_hard_termination(s, "rip is higher than it should be")
    ELSE s

\* LoopHead with the end-emulation test written as an equality: the bit is
\* missed when the trace bit is set as well
LoopHead_equality(s) ==
    Then(debug_checks(s), LAMBDA t :
        IF t.g_State = 0 THEN t
        ELSE IF t.g_State = stateEndEmulation
        THEN [t EXCEPT !.g_State = @ - stateEndEmulation, !.status = "returned"]
        ELSE IF HasBit(t.g_State, stateTraceInstructions) /\ t.tracer_enabled
        THEN trace_state(t)
        ELSE t)

\* LoopHead without g_State &= ~stateEndEmulation
LoopHead_keeps_request(s) ==
    Then(debug_checks(s), LAMBDA t :
        IF t.g_State = 0 THEN t
        ELSE IF HasBit(t.g_State, stateEndEmulation)
        THEN [t EXCEPT !.status = "returned"]
        ELSE IF HasBit(t.g_State, stateTraceInstructions) /\ t.tracer_enabled
        THEN trace_state(t)
        ELSE t)

\* from the label _prefix_is_set to the fetch of the opcode (not included)
LoopHead(s) ==
    Then(debug_checks(s), LAMBDA t :
        IF t.g_State = 0 THEN t
        ELSE IF HasBit(t.g_State, stateEndEmulation)
        THEN [t EXCEPT !.g_State = @ - stateEndEmulation, !.status = "returned"]
        ELSE IF HasBit(t.g_State, stateTraceInstructions) /\ t.tracer_enabled
        THEN trace_state(t)
        ELSE t)

\* an arm that ends in break: the loop continues at its top
Break(s) == Then(s, LAMBDA t : LoopTop(t))

\* an arm that ends in goto _prefix_is_set
Goto(s) == Then(s, LAMBDA t : [t EXCEPT !.pc = "head"])

\* the prefix arms
arm_prefix_rex(s, o) == [s EXCEPT !.prefix_rex = o]
arm_prefix_segment(s, o) == [s EXCEPT !.prefix_segment = o]
arm_prefix_size(s, o) == [s EXCEPT !.prefix_size = o]
arm_prefix_repeat(s, o) == [s EXCEPT !.prefix_sse2_repeat = o]

\* uint8_t op = get_rip8()
Fetch(s) ==
    LET o == rip_val(s, 1)[1]
    IN Then(get_rip(s, 1), LAMBDA f : [f EXCEPT !.op = o, !.pc = "switch"])

\* the switch on the opcode, rip being past the opcode byte
Exec(s, o) ==
    CASE o \in math_ops(0) -> Break(arm_math_rm8_r8(s, o))
      [] o \in math_ops(1) -> Break(arm_math_rm_r(s, o))
      [] o \in math_ops(2) -> Break(arm_math_r8_rm8(s, o))
      [] o \in math_ops(3) -> Break(arm_math_r_rm(s, o))
      [] o \in math_ops(4) -> Break(arm_math_al_imm8(s, o))
      [] o \in math_ops(5) -> Break(arm_math_ax_imm(s, o))
      [] o = 15 -> Break(arm_0f(s))
      [] o \in {46, 62} -> Break(s)
      [] o \in ops_rex -> Goto(arm_prefix_rex(s, o))
      [] o \in {100, 101} -> Goto(arm_prefix_segment(s, o))
      [] o \in {102, 103} -> Goto(arm_prefix_size(s, o))
      [] o \in 80..87 -> Break(arm_push_reg(s, o))
      [] o \in 88..95 -> Break(arm_pop_reg(s, o))
      [] o = 104 -> Break(arm_push_imm(s))
      [] o = 105 -> Break(arm_imul_69(s))
      [] o = 106 -> Break(arm_push_imm8(s))
      [] o = 107 -> Break(arm_imul_6b(s))
      [] o = 136 -> Break(arm_mov_rm8_r8(s))
      [] o = 137 -> Break(arm_mov_rm_r(s))
      [] o = 138 -> Break(arm_mov_r8_rm8(s))
      [] o = 139 -> Break(arm_mov_r_rm(s))
      [] o = 141 -> Break(arm_lea(s))
      [] o = 128 -> Break(arm_math_rm8_imm8(s))
      [] o = 129 -> Break(arm_math_rm_imm(s))
      [] o = 131 -> Break(arm_math_rm_imm8(s))
      [] o = 132 -> Break(arm_test_rm8_r8(s))
      [] o = 133 -> Break(arm_test_rm_r(s))
      [] o = 168 -> Break(arm_test_al_imm8(s))
      [] o = 169 -> Break(arm_test_ax_imm(s))
      [] o = 198 -> Break(arm_mov_rm8_imm8(s))
      [] o = 199 -> Break(arm_mov_rm_imm(s))
      [] o = 164 -> Break(arm_movsb(s))
      [] o = 170 -> Break(arm_stosb(s))
      [] o = 192 -> Break(arm_shift_rm8_imm8(s))
      [] o = 193 -> Break(arm_shift_rm_imm8(s))
      [] o = 195 -> Break(arm_ret(s))
      [] o = 208 -> Break(arm_shift_rm8_1(s))
      [] o = 209 -> Break(arm_shift_rm_1(s))
      [] o = 211 -> Break(arm_shift_rm_cl(s))
      [] o = 217 -> Break(arm_d9(s))
      [] o = 219 -> Break(arm_db(s))
      [] o = 221 -> Break(arm_dd(s))
      [] o = 222 -> Break(arm_de(s))
      [] o = 223 -> Break(arm_df(s))
      [] o = 227 -> Break(arm_jcxz(s))
      [] o = 232 -> Break(arm_call_rel32(s))
      [] o = 240 -> Goto(s)
      [] o \in {242, 243} -> Goto(arm_prefix_repeat(s, o))
      [] o = 244 -> Break(arm_hlt(s))
      [] o = 245 -> Break(arm_cmc(s))
      [] o = 246 -> Break(arm_f6(s))
      [] o = 247 -> Break(arm_f7(s))
      [] o = 254 -> Break(arm_fe(s))
      [] o = 255 -> Break(arm_ff(s))
      [] o \in ops_default -> unhandled(s)

\* one pass from _prefix_is_set through the switch
Step(s) ==
    Then(LoopHead(s), LAMBDA h : Then(Fetch(h), LAMBDA f : Exec(f, f.op)))

\* the passes of one instruction, its prefixes included: from the top of the
\* loop until the loop is at its top again or run() has ended
MaxPrefixes == 4
RECURSIVE Passes(_, _, _)
Passes(s, count, n) ==
    IF ~Running(s) \/ s.instruction_count # count \/ n = 0 THEN s
    ELSE Passes(Step(s), count, n - 1)
RunInsn(s) == Passes(s, s.instruction_count, MaxPrefixes + 1)

(***************************************************************************)
(* Initial states: the machine as the constructor leaves it, with a guest  *)
(* image in memory and the register values a guest can have loaded.        *)
(***************************************************************************)

q_0        == Zero(8)
q_1        == FromNat(1, 8)
q_2        == FromNat(2, 8)
q_3        == FromNat(3, 8)
q_7        == FromNat(7, 8)
q_8        == FromNat(8, 8)
q_16       == FromNat(16, 8)
q_32       == FromNat(32, 8)
q_33       == FromNat(33, 8)
q_64       == FromNat(64, 8)
q_ones     == Ones(8)
q_lo32     == << 255, 255, 255, 255, 0, 0, 0, 0 >>      \* 0x00000000ffffffff
q_hi_5     == << 5, 0, 0, 0, 1, 0, 0, 0 >>               \* 0x0000000100000005
q_hi_0     == << 0, 0, 0, 0, 1, 0, 0, 0 >>               \* 0x0000000100000000
q_10000    == << 0, 0, 1, 0, 0, 0, 0, 0 >>               \* 0x0000000000010000
q_8180     == << 128, 129, 0, 128, 0, 0, 0, 128 >>       \* 0x8000000080008180
q_code8    == AddNat(base, 8)                            \* an address in the program
q_last     == AddNat(base, MemSize - 1)                  \* the last byte of the image
q_last4    == AddNat(base, MemSize - 4)
q_beyond   == AddNat(base, MemSize)                      \* the first byte after it
q_below    == SubNat(base, 1)
q_7f       == FromNat(127, 8)
q_exit     == FromNat(sys_exit, 8)                       \* the number of the exit call
q_hi_data  == Add(DataAddr, q_hi_0)                      \* DataAddr + 2^32
q_data1    == AddNat(DataAddr, 1)
q_data8    == AddNat(DataAddr, 8)
q_a5       == FromNat(165, 8)

\* the cases: programs of the set codes with every combination of the inputs
Fam(codes, ras, rcs, rds, rbs, rdis, fls, nds, trs) ==
    [code : codes, ra : ras, rc : rcs, rd : rds, rb : rbs, rdi : rdis,
     fl : fls, nd : nds, tr : trs]

\* x87_fpu_control_word = 0x37f
fpu_control_boot == 895

InitWith(c) ==
    /\ regs = [i \in 0..15 |->
                 CASE i = rax -> c.ra [] i = rcx -> c.rc [] i = rdx -> c.rd
                   [] i = rbx -> c.rb [] i = rsp -> stack_top
                   [] i = rsi -> DataAddr [] i = rdi -> c.rdi
                   [] OTHER -> Zero(8)]
    /\ rip = base
    /\ rflags = c.fl
    /\ mem = [k \in 1..MemSize |->
                 IF k <= Len(c.code) THEN c.code[k]
                 ELSE IF k <= CodeLen THEN 244
                 ELSE IF k <= MemSize - StackSize THEN c.rb[((k - CodeLen - 1) % 8) + 1]
                 ELSE 0]
    /\ rfs = Zero(8) /\ rgs = Zero(8)
    /\ prefix_rex = 0 /\ prefix_size = 0 /\ prefix_sse2_repeat = 0
    /\ prefix_segment = 0
    /\ rexW = 0 /\ rexR = 0 /\ rexX = 0 /\ rexB = 0
    /\ rm = 0 /\ reg = 0 /\ mod = 0
    /\ sibScale = 0 /\ sibIndex = 0 /\ sibBase = 0
    /\ displacement = Zero(8)
    /\ x87_fpu_control_word = FromNat(fpu_control_boot, 2)
    /\ x87_fpu_status_word = Zero(2)
    /\ fregs = (0 :> Zero(10) @@ 1 :> Zero(10) @@ 2 :> Zero(10) @@ 3 :> Zero(10)
                @@ 4 :> Zero(10) @@ 5 :> Zero(10) @@ 6 :> Zero(10) @@ 7 :> Zero(10))
    /\ fp_sp = 0
    /\ xregs = (0 :> Zero(16) @@ 1 :> Zero(16) @@ 2 :> Zero(16) @@ 3 :> Zero(16)
                @@ 4 :> Zero(16) @@ 5 :> Zero(16) @@ 6 :> Zero(16) @@ 7 :> Zero(16)
                @@ 8 :> Zero(16) @@ 9 :> Zero(16) @@ 10 :> Zero(16)
                @@ 11 :> Zero(16) @@ 12 :> Zero(16) @@ 13 :> Zero(16)
                @@ 14 :> Zero(16) @@ 15 :> Zero(16))
    /\ g_State = IF c.tr THEN stateTraceInstructions ELSE 0
    /\ instruction_count = 0
    /\ status = "idle" /\ hook = "none" /\ oob = FALSE
    /\ ndebug = c.nd /\ tracer_enabled = TRUE
    /\ pc = "head" /\ op = 0
    /\ prev = Cur
    /\ start = Cur
    /\ earlier = Cur
    /\ executed = 0
    /\ insn_rip = rip

(***************************************************************************)
(* Actions: run() is entered, and then one action per arm of its switch.   *)
(***************************************************************************)

\* the call of run(): the counter starts at 0 and the loop at its top
run_enter ==
    /\ status = "idle"
    /\ Commit(LoopTop([Cur EXCEPT !.status = "run", !.instruction_count = 0]))

\* run() is called again after it returned: the registers, rip and g_State
\* are members and a static, and are as the last call left them
run_again ==
    /\ status = "returned"
    /\ Commit(LoopTop([Cur EXCEPT !.status = "run", !.instruction_count = 0]))

\* from _prefix_is_set to the switch: the checks, trace_state, the fetch; a
\* failed check, trace_state or the fetch can end run() in the hook
loop_head ==
    /\ status = "run" /\ pc = "head"
    /\ LoopHead(Cur).status # "returned"
    /\ Commit(Then(LoopHead(Cur), LAMBDA h : Fetch(h)))

\* g_State has stateEndEmulation: the bit is cleared and run() returns
run_return ==
    /\ status = "run" /\ pc = "head"
    /\ LoopHead(Cur).status = "returned"
    /\ Commit(LoopHead(Cur))

\* end_emulation() is called while run() executes (from a signal handler or
\* another thread of the host): a step of the caller, not of run(), which the
\* history of run()'s steps does not record
call_end_emulation ==
    /\ status = "run"
    /\ ~HasBit(g_State, stateEndEmulation)
    /\ g_State' = end_emulation(Cur).g_State
    /\ UNCHANGED << regs, rip, rflags, mem, rfs, rgs, prefix_rex, prefix_size,
                    prefix_sse2_repeat, prefix_segment, rexW, rexR, rexX, rexB,
                    rm, reg, mod, sibScale, sibIndex, sibBase, displacement,
                    x87_fpu_control_word, x87_fpu_status_word, fregs, fp_sp,
                    xregs, instruction_count, status, hook, oob, ndebug,
                    tracer_enabled, pc, op, prev, start, earlier, executed,
                    insn_rip >>

\* the switch is at the case of one of the opcodes ops
At(ops) == status = "run" /\ pc = "switch" /\ op \in ops

do_math_rm8_r8  == At(math_ops(0)) /\ Commit(Break(arm_math_rm8_r8(Cur, op)))
do_math_rm_r    == At(math_ops(1)) /\ Commit(Break(arm_math_rm_r(Cur, op)))
do_math_r8_rm8  == At(math_ops(2)) /\ Commit(Break(arm_math_r8_rm8(Cur, op)))
do_math_r_rm    == At(math_ops(3)) /\ Commit(Break(arm_math_r_rm(Cur, op)))
do_math_al_imm8 == At(math_ops(4)) /\ Commit(Break(arm_math_al_imm8(Cur, op)))
do_math_ax_imm  == At(math_ops(5)) /\ Commit(Break(arm_math_ax_imm(Cur, op)))
do_0f           == At({15}) /\ \E u \in over_shift_builds :
                       Commit(Break(arm_0f(with_build(Cur, u))))
do_math_rm8_imm8 == At({128}) /\ Commit(Break(arm_math_rm8_imm8(Cur)))
do_math_rm_imm  == At({129}) /\ Commit(Break(arm_math_rm_imm(Cur)))
do_math_rm_imm8 == At({131}) /\ Commit(Break(arm_math_rm_imm8(Cur)))
do_test_rm8_r8  == At({132}) /\ Commit(Break(arm_test_rm8_r8(Cur)))
do_test_rm_r    == At({133}) /\ Commit(Break(arm_test_rm_r(Cur)))
do_test_al_imm8 == At({168}) /\ Commit(Break(arm_test_al_imm8(Cur)))
do_test_ax_imm  == At({169}) /\ Commit(Break(arm_test_ax_imm(Cur)))
do_prefix_cs_ds == At({46, 62}) /\ Commit(Break(Cur))
do_prefix_rex   == At(ops_rex) /\ Commit(Goto(arm_prefix_rex(Cur, op)))
do_prefix_segment == At({100, 101}) /\ Commit(Goto(arm_prefix_segment(Cur, op)))
do_prefix_size  == At({102, 103}) /\ Commit(Goto(arm_prefix_size(Cur, op)))
do_push_reg     == At(80..87) /\ Commit(Break(arm_push_reg(Cur, op)))
do_pop_reg      == At(88..95) /\ Commit(Break(arm_pop_reg(Cur, op)))
do_push_imm     == At({104}) /\ Commit(Break(arm_push_imm(Cur)))
do_push_imm8    == At({106}) /\ Commit(Break(arm_push_imm8(Cur)))
do_ret          == At({195}) /\ Commit(Break(arm_ret(Cur)))
do_call_rel32   == At({232}) /\ Commit(Break(arm_call_rel32(Cur)))
do_movsb        == At({164}) /\ Commit(Break(arm_movsb(Cur)))
do_stosb        == At({170}) /\ Commit(Break(arm_stosb(Cur)))
do_imul_69      == At({105}) /\ Commit(Break(arm_imul_69(Cur)))
do_imul_6b      == At({107}) /\ Commit(Break(arm_imul_6b(Cur)))
do_mov_rm8_r8   == At({136}) /\ Commit(Break(arm_mov_rm8_r8(Cur)))
do_mov_rm_r     == At({137}) /\ Commit(Break(arm_mov_rm_r(Cur)))
do_mov_r8_rm8   == At({138}) /\ Commit(Break(arm_mov_r8_rm8(Cur)))
do_mov_r_rm     == At({139}) /\ Commit(Break(arm_mov_r_rm(Cur)))
do_lea          == At({141}) /\ Commit(Break(arm_lea(Cur)))
do_mov_rm8_imm8 == At({198}) /\ Commit(Break(arm_mov_rm8_imm8(Cur)))
do_mov_rm_imm   == At({199}) /\ Commit(Break(arm_mov_rm_imm(Cur)))
do_d9           == At({217}) /\ Commit(Break(arm_d9(Cur)))
do_db           == At({219}) /\ Commit(Break(arm_db(Cur)))
do_dd           == At({221}) /\ Commit(Break(arm_dd(Cur)))
do_de           == At({222}) /\ Commit(Break(arm_de(Cur)))
do_df           == At({223}) /\ Commit(Break(arm_df(Cur)))
do_shift_rm8_imm8 == At({192}) /\ Commit(Break(arm_shift_rm8_imm8(Cur)))
do_shift_rm_imm8  == At({193}) /\ Commit(Break(arm_shift_rm_imm8(Cur)))
do_shift_rm8_1  == At({208}) /\ Commit(Break(arm_shift_rm8_1(Cur)))
do_shift_rm_1   == At({209}) /\ Commit(Break(arm_shift_rm_1(Cur)))
do_shift_rm_cl  == At({211}) /\ Commit(Break(arm_shift_rm_cl(Cur)))
do_jcxz         == At({227}) /\ Commit(Break(arm_jcxz(Cur)))
do_lock         == At({240}) /\ Commit(Goto(Cur))
do_prefix_repeat == At({242, 243}) /\ Commit(Goto(arm_prefix_repeat(Cur, op)))
do_hlt          == At({244}) /\ Commit(Break(arm_hlt(Cur)))
do_cmc          == At({245}) /\ Commit(Break(arm_cmc(Cur)))
do_f6           == At({246}) /\ Commit(Break(arm_f6(Cur)))
do_f7           == At({247}) /\ Commit(Break(arm_f7(Cur)))
do_fe           == At({254}) /\ Commit(Break(arm_fe(Cur)))
do_ff           == At({255}) /\ Commit(Break(arm_ff(Cur)))
do_default      == At(ops_default) /\ Commit(unhandled(Cur))

Next ==
    \/ run_enter \/ run_again \/ loop_head \/ run_return \/ call_end_emulation
    \/ do_math_rm8_r8 \/ do_math_rm_r \/ do_math_r8_rm8 \/ do_math_r_rm
    \/ do_math_al_imm8 \/ do_math_ax_imm
    \/ do_math_rm8_imm8 \/ do_math_rm_imm \/ do_math_rm_imm8
    \/ do_test_rm8_r8 \/ do_test_rm_r \/ do_test_al_imm8 \/ do_test_ax_imm
    \/ do_0f \/ do_lea \/ do_d9 \/ do_db \/ do_dd \/ do_de \/ do_df
    \/ do_prefix_cs_ds \/ do_prefix_rex \/ do_prefix_segment \/ do_prefix_size
    \/ do_push_reg \/ do_pop_reg \/ do_push_imm \/ do_push_imm8
    \/ do_ret \/ do_call_rel32 \/ do_movsb \/ do_stosb
    \/ do_imul_69 \/ do_imul_6b
    \/ do_mov_rm8_r8 \/ do_mov_rm_r \/ do_mov_r8_rm8 \/ do_mov_r_rm
    \/ do_mov_rm8_imm8 \/ do_mov_rm_imm
    \/ do_shift_rm8_imm8 \/ do_shift_rm_imm8 \/ do_shift_rm8_1 \/ do_shift_rm_1
    \/ do_shift_rm_cl
    \/ do_jcxz \/ do_lock \/ do_prefix_repeat \/ do_hlt \/ do_cmc
    \/ do_f6 \/ do_f7 \/ do_fe \/ do_ff \/ do_default

(***************************************************************************)
(* The guest programs.  The bytes after a program are hlt (0xf4).          *)
(***************************************************************************)

\* the math group: 0x00 .. 0x3d
progs_math ==
    {<< 1, 200 >>,                     \* 01 c8  add eax, ecx
     << 17, 200 >>,                     \* 11 c8  adc eax, ecx
     << 41, 200 >>,                     \* 29 c8  sub eax, ecx
     << 25, 200 >>,                     \* 19 c8  sbb eax, ecx
     << 72, 17, 200 >>,                 \* 48 11 c8  adc rax, rcx
     << 72, 25, 200 >>,                 \* 48 19 c8  sbb rax, rcx
     << 102, 17, 200 >>,                \* 66 11 c8  adc ax, cx
     << 102, 25, 200 >>,                \* 66 19 c8  sbb ax, cx
     << 16, 200 >>,                     \* 10 c8  adc al, cl
     << 24, 200 >>,                     \* 18 c8  sbb al, cl
     << 0, 224 >>,                      \* 00 e0  add al, ah
     << 2, 193 >>,                      \* 02 c1  add al, cl
     << 18, 225 >>,                     \* 12 e1  adc ah, cl
     << 72, 2, 193 >>,                  \* 48 02 c1  add rax, se(cl)
     << 3, 193 >>,                      \* 03 c1  add eax, ecx
     << 102, 19, 193 >>,                \* 66 13 c1  adc ax, cx
     << 72, 27, 193 >>,                 \* 48 1b c1  sbb rax, rcx
     << 20, 255 >>,                     \* 14 ff  adc al, 0xff
     << 5, 255, 255, 255, 255 >>,       \* 05 ff ff ff ff  add eax, 0xffffffff
     << 102, 21, 255, 255 >>,           \* 66 15 ff ff  adc ax, 0xffff
     << 72, 29, 255, 255, 255, 255 >>,  \* 48 1d ff ff ff ff  sbb rax, -1
     << 57, 200 >>,                     \* 39 c8  cmp eax, ecx
     << 58, 193 >>,                     \* 3a c1  cmp al, cl
     << 1, 6 >>,                        \* 01 06  add [rsi], eax
     << 19, 6 >>,                       \* 13 06  adc eax, [rsi]
     << 48, 6 >>,                       \* 30 06  xor [rsi], al
     << 34, 6 >>,                       \* 22 06  and al, [rsi]
     << 9, 200 >> }                     \* 09 c8  or eax, ecx

\* shifts and rotates by cl
progs_shift_cl ==
    {<< 211, 224 >>,                   \* d3 e0  shl eax, cl
     << 72, 211, 224 >>,                \* 48 d3 e0  shl rax, cl
     << 102, 211, 224 >>,               \* 66 d3 e0  shl ax, cl
     << 211, 232 >>,                    \* d3 e8  shr eax, cl
     << 72, 211, 248 >>,                \* 48 d3 f8  sar rax, cl
     << 211, 192 >>,                    \* d3 c0  rol eax, cl
     << 72, 211, 200 >>,                \* 48 d3 c8  ror rax, cl
     << 211, 208 >>,                    \* d3 d0  rcl eax, cl
     << 102, 211, 216 >>,               \* 66 d3 d8  rcr ax, cl
     << 211, 38 >>,                     \* d3 26  shl dword [rsi], cl
     << 210, 224 >> }                   \* d2 e0  shl al, cl

\* shifts and rotates by imm8 and by 1
progs_shift_imm ==
    {<< 193, 224, 32 >>,               \* c1 e0 20  shl eax, 32
     << 72, 193, 224, 64 >>,            \* 48 c1 e0 40  shl rax, 64
     << 102, 193, 224, 16 >>,           \* 66 c1 e0 10  shl ax, 16
     << 102, 193, 232, 17 >>,           \* 66 c1 e8 11  shr ax, 17
     << 193, 248, 33 >>,                \* c1 f8 21  sar eax, 33
     << 72, 193, 232, 1 >>,             \* 48 c1 e8 01  shr rax, 1
     << 193, 192, 0 >>,                 \* c1 c0 00  rol eax, 0
     << 192, 224, 8 >>,                 \* c0 e0 08  shl al, 8
     << 192, 232, 9 >>,                 \* c0 e8 09  shr al, 9
     << 192, 196, 4 >>,                 \* c0 c4 04  rol ah, 4
     << 193, 216, 2 >>,                 \* c1 d8 02  rcr eax, 2
     << 192, 240, 1 >>,                 \* c0 f0 01  sal al, 1 (/6)
     << 208, 224 >>,                    \* d0 e0  shl al, 1
     << 208, 252 >>,                    \* d0 fc  sar ah, 1
     << 208, 208 >>,                    \* d0 d0  rcl al, 1
     << 209, 224 >>,                    \* d1 e0  shl eax, 1
     << 72, 209, 248 >>,                \* 48 d1 f8  sar rax, 1
     << 102, 209, 232 >>,               \* 66 d1 e8  shr ax, 1
     << 209, 200 >>,                    \* d1 c8  ror eax, 1
     << 65, 193, 224, 1 >>,             \* 41 c1 e0 01  shl r8d, 1
     << 68, 209, 224 >> }               \* 44 d1 e0  shl eax, 1 with REX.R

\* two- and three-operand imul
progs_imul ==
    {<< 15, 175, 193 >>,               \* 0f af c1  imul eax, ecx
     << 72, 15, 175, 193 >>,            \* 48 0f af c1  imul rax, rcx
     << 102, 15, 175, 193 >>,           \* 66 0f af c1  imul ax, cx
     << 105, 193, 0, 0, 1, 0 >>,        \* 69 c1 00 00 01 00  imul eax, ecx, 0x10000
     << 105, 193, 255, 255, 255, 255 >>, \* 69 c1 ff ff ff ff  imul eax, ecx, -1
     << 102, 105, 193, 255, 255 >>,     \* 66 69 c1 ff ff  imul ax, cx, -1
     << 72, 105, 193, 255, 255, 255, 127 >>, \* 48 69 c1 ff ff ff 7f  imul rax, rcx, 0x7fffffff
     << 107, 193, 255 >>,               \* 6b c1 ff  imul eax, ecx, -1
     << 102, 107, 193, 127 >>,          \* 66 6b c1 7f  imul ax, cx, 127
     << 72, 107, 193, 2 >>,             \* 48 6b c1 02  imul rax, rcx, 2
     << 15, 175, 6 >> }                 \* 0f af 06  imul eax, [rsi]

\* the 0xf6 and 0xf7 groups
progs_muldiv ==
    {<< 246, 241 >>,                   \* f6 f1  div cl
     << 246, 249 >>,                    \* f6 f9  idiv cl
     << 247, 241 >>,                    \* f7 f1  div ecx
     << 247, 249 >>,                    \* f7 f9  idiv ecx
     << 72, 247, 241 >>,                \* 48 f7 f1  div rcx
     << 72, 247, 249 >>,                \* 48 f7 f9  idiv rcx
     << 102, 247, 241 >>,               \* 66 f7 f1  div cx
     << 102, 247, 249 >>,               \* 66 f7 f9  idiv cx
     << 246, 225 >>,                    \* f6 e1  mul cl
     << 247, 225 >>,                    \* f7 e1  mul ecx
     << 247, 233 >>,                    \* f7 e9  imul ecx
     << 72, 247, 225 >>,                \* 48 f7 e1  mul rcx
     << 72, 247, 233 >>,                \* 48 f7 e9  imul rcx
     << 102, 247, 225 >>,               \* 66 f7 e1  mul cx
     << 102, 247, 233 >>,               \* 66 f7 e9  imul cx
     << 246, 208 >>,                    \* f6 d0  not al
     << 246, 220 >>,                    \* f6 dc  neg ah
     << 247, 208 >>,                    \* f7 d0  not eax
     << 247, 216 >>,                    \* f7 d8  neg eax
     << 72, 247, 216 >>,                \* 48 f7 d8  neg rax
     << 102, 247, 208 >>,               \* 66 f7 d0  not ax
     << 246, 192, 129 >>,               \* f6 c0 81  test al, 0x81
     << 247, 192, 0, 0, 0, 128 >>,      \* f7 c0 00 00 00 80  test eax, 0x80000000
     << 72, 247, 192, 0, 0, 0, 128 >>,  \* 48 f7 c0 00 00 00 80  test rax, se(0x80000000)
     << 102, 247, 192, 0, 128 >>,       \* 66 f7 c0 00 80  test ax, 0x8000
     << 246, 200 >>,                    \* f6 c8  f6 /1
     << 247, 200 >>,                    \* f7 c8  f7 /1
     << 247, 54 >>,                     \* f7 36  div dword [rsi]
     << 246, 62 >> }                    \* f6 3e  idiv byte [rsi]

\* the 0xfe and 0xff groups
progs_incdec ==
    {<< 254, 192 >>,                   \* fe c0  inc al
     << 254, 200 >>,                    \* fe c8  dec al
     << 254, 196 >>,                    \* fe c4  inc ah
     << 254, 208 >>,                    \* fe d0  fe /2
     << 255, 192 >>,                    \* ff c0  inc eax
     << 255, 200 >>,                    \* ff c8  dec eax
     << 72, 255, 192 >>,                \* 48 ff c0  inc rax
     << 102, 255, 200 >>,               \* 66 ff c8  dec ax
     << 255, 6 >>,                      \* ff 06  inc dword [rsi]
     << 255, 211 >>,                    \* ff d3  call rbx
     << 255, 227 >>,                    \* ff e3  jmp rbx
     << 255, 243 >>,                    \* ff f3  push rbx
     << 102, 255, 243 >>,               \* 66 ff f3  push bx
     << 255, 216 >>,                    \* ff d8  ff /3
     << 255, 38 >>,                     \* ff 26  jmp [rsi]
     << 255, 248 >> }                   \* ff f8  ff /7

\* mov 0x88 .. 0x8b
progs_mov ==
    {<< 136, 200 >>,                   \* 88 c8  mov al, cl
     << 136, 224 >>,                    \* 88 e0  mov al, ah
     << 137, 200 >>,                    \* 89 c8  mov eax, ecx
     << 102, 137, 200 >>,               \* 66 89 c8  mov ax, cx
     << 72, 137, 200 >>,                \* 48 89 c8  mov rax, rcx
     << 138, 193 >>,                    \* 8a c1  mov al, cl
     << 138, 225 >>,                    \* 8a e1  mov ah, cl
     << 139, 193 >>,                    \* 8b c1  mov eax, ecx
     << 102, 139, 193 >>,               \* 66 8b c1  mov ax, cx
     << 72, 139, 193 >>,                \* 48 8b c1  mov rax, rcx
     << 137, 6 >>,                      \* 89 06  mov [rsi], eax
     << 139, 6 >>,                      \* 8b 06  mov eax, [rsi]
     << 102, 139, 6 >>,                 \* 66 8b 06  mov ax, [rsi]
     << 64, 136, 224 >> }               \* 40 88 e0  mov al, spl

\* memory operands near the end of the image
progs_mem ==
    {<< 139, 7 >>,                     \* 8b 07  mov eax, [rdi]
     << 72, 139, 7 >>,                  \* 48 8b 07  mov rax, [rdi]
     << 72, 137, 7 >>,                  \* 48 89 07  mov [rdi], rax
     << 138, 7 >>,                      \* 8a 07  mov al, [rdi]
     << 136, 7 >>,                      \* 88 07  mov [rdi], al
     << 102, 139, 71, 1 >>,             \* 66 8b 47 01  mov ax, [rdi+1]
     << 72, 139, 4, 15 >>,              \* 48 8b 04 0f  mov rax, [rdi+rcx]
     << 139, 68, 79, 2 >>,              \* 8b 44 4f 02  mov eax, [rdi+rcx*2+2]
     << 139, 5, 16, 0, 0, 0 >>,         \* 8b 05 10 00 00 00  mov eax, [rip+16]
     << 100, 139, 7 >>,                 \* 64 8b 07  mov eax, fs:[rdi]
     << 101, 139, 7 >>,                 \* 65 8b 07  mov eax, gs:[rdi]
     << 103, 139, 7 >>,                 \* 67 8b 07  mov eax, [edi]
     << 255, 55 >>,                     \* ff 37  push qword [rdi]
     << 139, 4, 37, 24, 16, 0, 0 >> }   \* 8b 04 25 18 10 00 00  mov eax, [0x1018]

\* prefixes, jcxz after another instruction, prefetch, cmc
progs_decode ==
    {<< 72, 1, 200, 227, 1, 245, 244 >>, \* 48 01 c8 e3 01 f5 f4  add rax, rcx / jecxz +1 / cmc / hlt
     << 1, 200, 227, 1, 245, 244 >>,    \* 01 c8 e3 01 f5 f4  add eax, ecx / jecxz +1 / cmc / hlt
     << 227, 1, 245, 244 >>,            \* e3 01 f5 f4  jecxz +1 / cmc / hlt
     << 102, 227, 1, 245, 244 >>,       \* 66 e3 01 f5 f4  jcxz +1 / cmc / hlt
     << 72, 227, 1, 245, 244 >>,        \* 48 e3 01 f5 f4  rex.w jecxz +1 / cmc / hlt
     << 46, 1, 200 >>,                  \* 2e 01 c8  cs: add eax, ecx
     << 62, 72, 1, 200 >>,              \* 3e 48 01 c8  ds: add rax, rcx
     << 240, 1, 6 >>,                   \* f0 01 06  lock add [rsi], eax
     << 242, 1, 200 >>,                 \* f2 01 c8  repne add eax, ecx
     << 243, 72, 1, 200 >>,             \* f3 48 01 c8  rep add rax, rcx
     << 102, 72, 1, 200 >>,             \* 66 48 01 c8  add rax, rcx with 0x66
     << 72, 102, 1, 200 >>,             \* 48 66 01 c8  add ax, cx after rex
     << 15, 24, 6 >>,                   \* 0f 18 06  prefetchnta [rsi]
     << 15, 24, 38 >>,                  \* 0f 18 26  prefetch /4
     << 245 >>,                         \* f5  cmc
     << 76, 1, 200, 1, 200 >>,          \* 4c 01 c8 01 c8  add rax, r9 / add eax, ecx
     << 244 >> }                        \* f4  hlt

\* leaving run(): hlt, the system call, end_emulation() between the bytes
progs_control ==
    {<< 244 >>,                        \* f4  hlt
     << 245, 244 >>,                    \* f5 f4  cmc / hlt
     << 72, 1, 200, 244 >>,             \* 48 01 c8 f4  add rax, rcx / hlt
     << 102, 1, 200 >>,                 \* 66 01 c8  add ax, cx
     << 46, 1, 200 >>,                  \* 2e 01 c8  cs: add eax, ecx
     << 102, 46, 1, 200 >>,             \* 66 2e 01 c8  add ax, cx with cs:
     << 243, 72, 1, 200 >>,             \* f3 48 01 c8  rep add rax, rcx
     << 240, 1, 6 >>,                   \* f0 01 06  lock add [rsi], eax
     << 15, 5, 245, 244 >> }            \* 0f 05 f5 f4  syscall / cmc / hlt

\* the operand width under combinations of prefixes
progs_width ==
    {<< 1, 200 >>,                     \* 01 c8  add eax, ecx
     << 102, 1, 200 >>,                 \* 66 01 c8  add ax, cx
     << 103, 1, 200 >>,                 \* 67 01 c8  add eax, ecx
     << 102, 103, 1, 200 >>,            \* 66 67 01 c8  add ax, cx
     << 103, 102, 1, 200 >>,            \* 67 66 01 c8  add ax, cx
     << 72, 1, 200 >>,                  \* 48 01 c8  add rax, rcx
     << 68, 1, 200 >>,                  \* 44 01 c8  add eax, r9d
     << 102, 72, 1, 200 >>,             \* 66 48 01 c8  add rax, rcx
     << 243, 102, 1, 200 >>,            \* f3 66 01 c8  add ax, cx
     << 100, 102, 1, 200 >>,            \* 64 66 01 c8  add ax, cx
     << 102, 100, 1, 200 >>,            \* 66 64 01 c8  add ax, cx
     << 102, 240, 1, 6 >>,              \* 66 f0 01 06  lock add [rsi], ax
     << 2, 193 >>,                      \* 02 c1  add al, cl
     << 64, 2, 193 >>,                  \* 40 02 c1  add al, cl
     << 72, 2, 193 >>,                  \* 48 02 c1  add al, cl with REX.W
     << 0, 200 >>,                      \* 00 c8  add al, cl
     << 72, 0, 200 >> }                 \* 48 00 c8  add al, cl with REX.W

\* memory operands and lea under the address-size prefix
progs_addr ==
    {<< 139, 7 >>,                     \* 8b 07  mov eax, [rdi]
     << 103, 139, 7 >>,                 \* 67 8b 07  mov eax, [edi]
     << 103, 137, 7 >>,                 \* 67 89 07  mov [edi], eax
     << 141, 7 >>,                      \* 8d 07  lea eax, [rdi]
     << 103, 141, 7 >>,                 \* 67 8d 07  lea eax, [edi]
     << 72, 141, 7 >>,                  \* 48 8d 07  lea rax, [rdi]
     << 103, 72, 141, 7 >>,             \* 67 48 8d 07  lea rax, [edi]
     << 103, 72, 141, 71, 1 >>,         \* 67 48 8d 47 01  lea rax, [edi+1]
     << 102, 141, 7 >>,                 \* 66 8d 07  lea ax, [rdi]
     << 141, 4, 15 >>,                  \* 8d 04 0f  lea eax, [rdi+rcx]
     << 103, 72, 141, 4, 15 >>,         \* 67 48 8d 04 0f  lea rax, [edi+ecx]
     << 72, 141, 4, 79 >> }             \* 48 8d 04 4f  lea rax, [rdi+rcx*2]

\* push, pop, call and ret; the byte at base + 8 is a ret where a call
\* goes there
progs_stack ==
    {<< 80, 89 >>,                     \* 50 59  push rax; pop rcx
     << 83, 88 >>,                      \* 53 58  push rbx; pop rax
     << 84, 88 >>,                      \* 54 58  push rsp; pop rax
     << 80, 88 >>,                      \* 50 58  push rax; pop rax
     << 65, 80, 89 >>,                  \* 41 50 59  push r8; pop rcx
     << 80, 65, 89 >>,                  \* 50 41 59  push rax; pop r9
     << 102, 80 >>,                     \* 66 50  push ax
     << 102, 88 >>,                     \* 66 58  pop ax
     << 104, 120, 86, 52, 18 >>,        \* 68 78 56 34 12  push 0x12345678
     << 102, 104, 52, 18 >>,            \* 66 68 34 12  push 0x1234
     << 106, 128 >>,                    \* 6a 80  push -128
     << 255, 243 >>,                    \* ff f3  push rbx
     << 102, 255, 243 >>,               \* 66 ff f3  push bx
     << 143, 192 >>,                    \* 8f c0  pop rax (the r/m form)
     << 232, 3, 0, 0, 0, 244, 244, 244, 195 >>,   \* e8 03 00 00 00  call +3
     << 255, 211, 244, 244, 244, 244, 244, 244, 195 >>,  \* ff d3  call rbx
     << 255, 22, 244, 244, 244, 244, 244, 244, 195 >>,   \* ff 16  call [rsi]
     << 80, 255, 20, 36, 244, 244, 244, 244, 195 >>,     \* 50; ff 14 24  call [rsp]
     << 80, 255, 84, 36, 8, 244, 244, 244, 195 >>,       \* 50; ff 54 24 08  call [rsp+8]
     << 255, 212 >>,                    \* ff d4  call rsp
     << 195 >> }                        \* c3  ret

\* bsf and bsr at the three operand widths, from a register and from memory
progs_scan ==
    {<< 15, 188, 193 >>,               \* 0f bc c1  bsf eax, ecx
     << 15, 189, 193 >>,               \* 0f bd c1  bsr eax, ecx
     << 72, 15, 188, 193 >>,           \* 48 0f bc c1  bsf rax, rcx
     << 72, 15, 189, 193 >>,           \* 48 0f bd c1  bsr rax, rcx
     << 102, 15, 188, 193 >>,          \* 66 0f bc c1  bsf ax, cx
     << 102, 15, 189, 193 >>,          \* 66 0f bd c1  bsr ax, cx
     << 76, 15, 189, 193 >>,           \* 4c 0f bd c1  bsr r8, rcx
     << 15, 189, 201 >>,               \* 0f bd c9  bsr ecx, ecx
     << 15, 188, 6 >>,                 \* 0f bc 06  bsf eax, [rsi]
     << 72, 15, 189, 6 >>,             \* 48 0f bd 06  bsr rax, [rsi]
     << 102, 15, 189, 6 >> }           \* 66 0f bd 06  bsr ax, [rsi]

\* x87 programs: k times fdecstp (d9 f6) to turn the ring, then a body
fp_rotate(k) == Vec([i \in 1..(2 * k) |-> IF i % 2 = 1 THEN 217 ELSE 246])
bodies_fp ==
    {<< 217, 232, 217, 238, 217, 193, 222, 193 >>,  \* fld1; fldz; fld st(1); faddp st(1)
     << 217, 235, 217, 232, 217, 201, 221, 217 >>,  \* fldpi; fld1; fxch st(1); fstp st(1)
     << 217, 238, 217, 242, 222, 233 >>,            \* fldz; fptan; fsubp st(1)
     << 217, 238, 217, 251, 217, 244, 223, 233 >>,  \* fldz; fsincos; fxtract; fucomip st(1)
     << 219, 6, 223, 6, 222, 225, 219, 31 >>,       \* fild dword [rsi]; fild word [rsi]; fsubrp st(1); fistp dword [rdi]
     << 223, 46, 223, 63 >>,                        \* fild qword [rsi]; fistp qword [rdi]
     << 217, 232, 217, 247, 217, 246, 223, 31 >>,   \* fld1; fincstp; fdecstp; fistp word [rdi]
     << 219, 6, 219, 63, 219, 47, 223, 241 >>,      \* fild dword [rsi]; fstp tbyte [rdi]; fld tbyte [rdi]; fcomip st(1)
     << 217, 232, 221, 225 >>,                      \* fld1; dd e1 (no branch)
     << 217, 232, 222, 217 >>,                      \* fld1; de d9 (no branch)
     << 217, 232, 223, 224 >>,                      \* fld1; fnstsw ax
     << 217, 232, 217, 55 >>,                       \* fld1; fnstenv [rdi]
     << 217, 232, 219, 46, 219, 63, 219, 47 >>}     \* fld1; fld tbyte [rsi]; fstp tbyte [rdi]; fld tbyte [rdi]
progs_fp == {fp_rotate(k) \o b : k \in 0..7, b \in bodies_fp}

\* the scalar compares: xmm0 and xmm1 are loaded from rax and rcx first
load_xmm01 == << 102, 72, 15, 110, 192,       \* 66 48 0f 6e c0  movq xmm0, rax
                 102, 72, 15, 110, 201 >>     \* 66 48 0f 6e c9  movq xmm1, rcx
bodies_compare ==
    {<< 102, 15, 46, 193 >>,           \* 66 0f 2e c1  ucomisd xmm0, xmm1
     << 15, 46, 193 >>,                \* 0f 2e c1  ucomiss xmm0, xmm1
     << 102, 15, 47, 193 >>,           \* 66 0f 2f c1  comisd xmm0, xmm1
     << 15, 47, 193 >>,                \* 0f 2f c1  comiss xmm0, xmm1
     << 102, 15, 46, 14 >>,            \* 66 0f 2e 0e  ucomisd xmm1, [rsi]
     << 15, 47, 14 >>,                 \* 0f 2f 0e  comiss xmm1, [rsi]
     << 102, 68, 15, 47, 193 >>,       \* 66 44 0f 2f c1  comisd xmm8, xmm1
     << 243, 15, 46, 193 >>,           \* f3 0f 2e c1  (no branch)
     << 242, 15, 47, 193 >>}           \* f2 0f 2f c1  (no branch)
progs_compare == {load_xmm01 \o b : b \in bodies_compare}

\* and, or, xor and test on register, memory and immediate operands, at each width
progs_logic ==
    {<< 33, 200 >>,                    \* 21 c8  and eax, ecx
     << 72, 33, 200 >>,                \* 48 21 c8  and rax, rcx
     << 102, 33, 200 >>,               \* 66 21 c8  and ax, cx
     << 9, 200 >>,                     \* 09 c8  or eax, ecx
     << 72, 49, 200 >>,                \* 48 31 c8  xor rax, rcx
     << 102, 49, 200 >>,               \* 66 31 c8  xor ax, cx
     << 49, 6 >>,                      \* 31 06  xor [rsi], eax
     << 34, 193 >>,                    \* 22 c1  and al, cl
     << 10, 193 >>,                    \* 0a c1  or al, cl
     << 50, 225 >>,                    \* 32 e1  xor ah, cl
     << 50, 6 >>,                      \* 32 06  xor al, [rsi]
     << 131, 225, 240 >>,              \* 83 e1 f0  and ecx, -16
     << 72, 131, 201, 255 >>,          \* 48 83 c9 ff  or rcx, -1
     << 102, 131, 241, 15 >>,          \* 66 83 f1 0f  xor cx, 15
     << 131, 14, 1 >>,                 \* 83 0e 01  or dword [rsi], 1
     << 132, 200 >>,                   \* 84 c8  test al, cl
     << 132, 225 >>,                   \* 84 e1  test cl, ah
     << 133, 200 >>,                   \* 85 c8  test eax, ecx
     << 72, 133, 200 >>,               \* 48 85 c8  test rax, rcx
     << 102, 133, 200 >>,              \* 66 85 c8  test ax, cx
     << 133, 6 >>,                     \* 85 06  test [rsi], eax
     << 168, 128 >>,                   \* a8 80  test al, 0x80
     << 169, 0, 0, 0, 128 >>,          \* a9 00 00 00 80  test eax, 0x80000000
     << 72, 169, 255, 255, 255, 255 >>,\* 48 a9 ff ff ff ff  test rax, -1
     << 102, 169, 128, 129 >>,         \* 66 a9 80 81  test ax, 0x8180
     << 64, 169, 255, 255, 255, 255 >>}\* 40 a9 ff ff ff ff  test eax, -1 (REX without W)

\* stosb and movsb, alone and repeated
progs_string ==
    {<< 170 >>,                        \* aa  stosb
     << 243, 170 >>,                    \* f3 aa  rep stosb
     << 242, 170 >>,                    \* f2 aa  repne stosb
     << 243, 72, 170 >>,                \* f3 48 aa  rep stosb with REX.W
     << 164 >>,                         \* a4  movsb
     << 243, 164 >>,                    \* f3 a4  rep movsb
     << 242, 164 >>,                    \* f2 a4  repne movsb
     << 243, 72, 164 >> }               \* f3 48 a4  rep movsb with REX.W

\* opcodes, second bytes and /digits without an arm
progs_unhandled ==
    {<< 6 >>,                          \* 06
     << 214 >>,                         \* d6
     << 210, 224 >>,                    \* d2 e0  shl al, cl
     << 15, 11 >>,                      \* 0f 0b  ud2
     << 15, 255 >>,                     \* 0f ff
     << 15, 24, 38 >>,                  \* 0f 18 26  prefetch /4
     << 15, 24, 6 >>,                   \* 0f 18 06  prefetchnta [rsi]
     << 246, 200 >>,                    \* f6 c8  f6 /1
     << 246, 233 >>,                    \* f6 e9  f6 /5
     << 246, 208 >>,                    \* f6 d0  not al
     << 247, 200 >>,                    \* f7 c8  f7 /1
     << 247, 208 >>,                    \* f7 d0  not eax
     << 254, 208 >>,                    \* fe d0  fe /2
     << 254, 192 >>,                    \* fe c0  inc al
     << 255, 216 >>,                    \* ff d8  ff /3
     << 255, 232 >>,                    \* ff e8  ff /5
     << 255, 248 >>,                    \* ff f8  ff /7
     << 255, 192 >>,                    \* ff c0  inc eax
     << 192, 240, 1 >>,                 \* c0 f0 01  c0 /6
     << 192, 224, 1 >>,                 \* c0 e0 01  shl al, 1
     << 217, 208 >>,                    \* d9 d0  fnop
     << 217, 46 >>,                     \* d9 2e  fldcw [rsi]
     << 217, 62 >>,                     \* d9 3e  fnstcw [rsi]
     << 217, 38 >>,                     \* d9 26  fldenv [rsi]
     << 217, 54 >>,                     \* d9 36  fnstenv [rsi]
     << 217, 14 >>,                     \* d9 0e  d9 /1
     << 217, 239 >>,                    \* d9 ef
     << 217, 226 >>,                    \* d9 e2
     << 217, 231 >> }                   \* d9 e7

\* the inputs each family of programs runs with
cases_math ==
    Fam(progs_math, {q_ones, q_hi_5, q_lo32, q_7f, q_8180},
        {q_ones, q_1, q_lo32, q_8180}, {q_0},
        {q_8180}, {DataAddr}, {0, 1}, {FALSE}, {FALSE})
cases_shift_cl ==
    Fam(progs_shift_cl, {q_0, q_3, q_hi_5, q_8180}, {q_0, q_1, q_8, q_16, q_32, q_33, q_64},
        {q_0}, {q_3}, {DataAddr}, {0, 1}, {FALSE}, {FALSE})
cases_shift_imm ==
    Fam(progs_shift_imm, {q_0, q_1, q_hi_5, q_8180}, {q_0}, {q_0}, {q_3}, {DataAddr},
        {0, 1}, {FALSE, TRUE}, {FALSE})
cases_imul ==
    Fam(progs_imul, {q_1, q_10000, q_ones, q_hi_5}, {q_10000, q_lo32, q_3, q_8180},
        {q_0}, {q_10000}, {DataAddr}, {0}, {FALSE}, {FALSE})
cases_muldiv ==
    Fam(progs_muldiv, {q_7, q_ones, q_8180}, {q_0, q_2, q_ones}, {q_0, q_1},
        {q_0, q_3}, {DataAddr}, {0}, {FALSE}, {FALSE})
cases_incdec ==
    Fam(progs_incdec, {q_hi_5, q_ones, q_lo32, q_7f, q_8180}, {q_0}, {q_0}, {q_code8},
        {DataAddr},
        {0}, {FALSE, TRUE}, {FALSE})
cases_mov ==
    Fam(progs_mov, {q_hi_5, q_ones}, {q_3, q_8180}, {q_0}, {q_8180}, {DataAddr},
        {0}, {FALSE}, {FALSE})
cases_mem ==
    Fam(progs_mem, {q_hi_5}, {q_0, q_1}, {q_0}, {q_3},
        {DataAddr, q_last, q_last4, q_beyond, q_below}, {0}, {FALSE, TRUE}, {FALSE})
cases_decode ==
    Fam(progs_decode, {q_1}, {q_0, q_hi_0, q_1}, {q_0}, {q_3}, {DataAddr},
        {0}, {FALSE, TRUE}, {FALSE, TRUE})

cases_control ==
    Fam(progs_control, {q_1, q_exit}, {q_1}, {q_0}, {q_3}, {DataAddr},
        {0}, {FALSE, TRUE}, {FALSE, TRUE})
cases_width ==
    Fam(progs_width, {q_hi_5, q_ones, q_7f}, {q_1, q_lo32}, {q_0}, {q_8180}, {DataAddr},
        {0}, {FALSE}, {FALSE})
cases_addr ==
    Fam(progs_addr, {q_hi_5}, {q_1, q_ones}, {q_0}, {q_3},
        {DataAddr, q_hi_data, q_lo32}, {0}, {FALSE, TRUE}, {FALSE})
cases_unhandled ==
    Fam(progs_unhandled, {q_1}, {q_0}, {DataAddr, q_0}, {q_3}, {DataAddr, q_7},
        {0}, {FALSE, TRUE}, {FALSE})
cases_string ==
    Fam(progs_string, {q_a5}, {q_0, q_1, q_3}, {q_0}, {q_8180},
        {q_data1, q_data8}, {0, 1024}, {FALSE, TRUE}, {FALSE})
cases_scan ==
    Fam(progs_scan, {q_ones}, {q_0, q_1, q_10000, q_hi_0, q_8180, q_hi_5},
        {q_0}, {q_0, q_10000, q_8180}, {DataAddr}, {0, 64}, {FALSE}, {FALSE})
cases_fp ==
    Fam(progs_fp, {q_ones}, {q_0}, {q_0}, {q_3, q_8180, q_hi_5}, {DataAddr, q_data1},
        {0}, {FALSE}, {FALSE})
\* instructions with a RIP-relative operand (mod = 00, r/m = 101); the
\* displacement reaches the data behind the program or the program itself
progs_riprel ==
    {<< 72, 141, 5, 249, 255, 255, 255 >>,          \* 48 8d 05 f9ffffff  lea rax, [rip-7]
     << 72, 141, 5, 20, 0, 0, 0 >>,                 \* 48 8d 05 14000000  lea rax, [rip+20]
     << 103, 72, 141, 5, 248, 255, 255, 255 >>,     \* 67 48 8d 05 f8ffffff  lea rax, [eip-8]
     << 139, 5, 19, 0, 0, 0 >>,                     \* 8b 05 13000000  mov eax, [rip+19]
     << 139, 5, 250, 255, 255, 255 >>,              \* 8b 05 faffffff  mov eax, [rip-6]
     << 137, 13, 20, 0, 0, 0 >>,                    \* 89 0d 14000000  mov [rip+20], ecx
     << 129, 5, 16, 0, 0, 0, 1, 0, 0, 128 >>,       \* 81 05 10000000 01000080  add dword [rip+16], imm32
     << 128, 13, 19, 0, 0, 0, 129 >>,               \* 80 0d 13000000 81  or byte [rip+19], 0x81
     << 131, 37, 21, 0, 0, 0, 240 >>,               \* 83 25 15000000 f0  and dword [rip+21], -16
     << 72, 131, 53, 18, 0, 0, 0, 15 >>,            \* 48 83 35 12000000 0f  xor qword [rip+18], 15
     << 246, 5, 18, 0, 0, 0, 128 >>,                \* f6 05 12000000 80  test byte [rip+18], 0x80
     << 247, 5, 16, 0, 0, 0, 255, 0, 0, 0 >>,       \* f7 05 10000000 ff000000  test dword [rip+16], 255
     << 105, 5, 16, 0, 0, 0, 3, 0, 0, 0 >>,         \* 69 05 10000000 03000000  imul eax, [rip+16], 3
     << 107, 13, 18, 0, 0, 0, 5 >>,                 \* 6b 0d 12000000 05  imul ecx, [rip+18], 5
     << 193, 37, 18, 0, 0, 0, 4 >>,                 \* c1 25 12000000 04  shl dword [rip+18], 4
     << 199, 5, 16, 0, 0, 0, 120, 86, 52, 18 >>,    \* c7 05 10000000 78563412  mov dword [rip+16], imm32
     << 198, 5, 19, 0, 0, 0, 90 >>,                 \* c6 05 13000000 5a  mov byte [rip+19], 0x5a
     << 102, 199, 5, 16, 0, 0, 0, 52, 18 >>,        \* 66 c7 05 10000000 3412  mov word [rip+16], imm16
     << 72, 199, 5, 14, 0, 0, 0, 254, 255, 255, 255 >>, \* 48 c7 05 0e000000 feffffff  mov qword [rip+14], -2
     << 219, 45, 18, 0, 0, 0 >>,                    \* db 2d 12000000  fld tbyte [rip+18]
     << 217, 232, 219, 61, 17, 0, 0, 0 >>,          \* d9 e8 db 3d 11000000  fld1; fstp tbyte [rip+17]
     << 255, 5, 19, 0, 0, 0 >> }                    \* ff 05 13000000  inc dword [rip+19]

\* f3 0f 6f 06  movdqu xmm0, [rsi];  f3 0f 6f 0e  movdqu xmm1, [rsi]
load_xmm01_wide == << 243, 15, 111, 6, 243, 15, 111, 14 >>
bodies_movd ==
    {<< 102, 15, 110, 192 >>,          \* 66 0f 6e c0  movd xmm0, eax
     << 102, 72, 15, 110, 193 >>,      \* 66 48 0f 6e c1  movq xmm0, rcx
     << 102, 15, 110, 15 >>,           \* 66 0f 6e 0f  movd xmm1, [rdi]
     << 102, 72, 15, 110, 7 >>,        \* 66 48 0f 6e 07  movq xmm0, [rdi]
     << 243, 15, 126, 193 >>,          \* f3 0f 7e c1  movq xmm0, xmm1
     << 243, 15, 126, 192 >>,          \* f3 0f 7e c0  movq xmm0, xmm0
     << 243, 15, 126, 15 >>,           \* f3 0f 7e 0f  movq xmm1, [rdi]
     << 102, 15, 126, 192 >>,          \* 66 0f 7e c0  movd eax, xmm0
     << 102, 72, 15, 126, 201 >>,      \* 66 48 0f 7e c9  movq rcx, xmm1
     << 102, 15, 126, 7 >>,            \* 66 0f 7e 07  movd [rdi], xmm0
     << 102, 72, 15, 126, 15 >>,       \* 66 48 0f 7e 0f  movq [rdi], xmm1
     << 102, 15, 111, 200 >>,          \* 66 0f 6f c8  movdqa xmm1, xmm0
     << 15, 110, 192 >>,               \* 0f 6e c0  movd mm0, eax
     << 15, 126, 192 >> }              \* 0f 7e c0  movd eax, mm0
progs_movd == {load_xmm01_wide \o b : b \in bodies_movd} \cup bodies_movd

\* the packed shifts: xmm0 holds the 16 bytes at rsi and xmm1 the count rcx
\* f3 0f 6f 06  movdqu xmm0, [rsi];  66 48 0f 6e c9  movq xmm1, rcx
load_xmm0_count == << 243, 15, 111, 6, 102, 72, 15, 110, 201 >>
bodies_pshift ==
    \* 66 0f 71 /2 /4 /6 ib  psrlw, psraw, psllw xmm0, ib
    {<< 102, 15, 113, m, ib >> : m \in {208, 224, 240}, ib \in {3, 16, 40}}
    \* 66 0f 72 /2 /4 /6 ib  psrld, psrad, pslld xmm0, ib
    \cup {<< 102, 15, 114, m, ib >> : m \in {208, 224, 240}, ib \in {3, 32, 40, 64}}
    \* 66 0f 73 /2 /6 ib  psrlq, psllq xmm0, ib
    \cup {<< 102, 15, 115, m, ib >> : m \in {208, 240}, ib \in {3, 64, 65, 200}}
    \* 66 0f 73 /3 /7 ib  psrldq, pslldq xmm0, ib
    \cup {<< 102, 15, 115, m, ib >> : m \in {216, 248}, ib \in {0, 3, 9, 16}}
    \* 66 0f d2 / d3 / e2 / f2 / f3 c1  psrld, psrlq, psrad, pslld, psllq xmm0, xmm1
    \* 66 0f d1 / e1 / f1 c1  psrlw, psraw, psllw xmm0, xmm1
    \cup {<< 102, 15, o, 193 >> : o \in {209, 210, 211, 225, 226, 241, 242, 243}}
    \cup {<< 102, 15, 210, 7 >>,          \* 66 0f d2 07  psrld xmm0, [rdi]
          << 243, 15, 211, 193 >>,       \* f3 0f d3 c1  a repeat prefix
          << 243, 15, 226, 193 >>,       \* f3 0f e2 c1
          << 15, 114, 208, 3 >>,         \* 0f 72 d0 03  psrld mm0, 3
          << 102, 15, 114, 200, 3 >>}    \* 66 0f 72 /1
progs_pshift == {load_xmm0_count \o b : b \in bodies_pshift}

progs_cpuid ==
    {<< 15, 162 >>,                    \* 0f a2  cpuid
     << 72, 15, 162 >>,                \* 48 0f a2
     << 15, 162, 15, 162 >> }          \* 0f a2 0f a2  cpuid; cpuid
q_leaf_ext    == << 0, 0, 0, 128, 0, 0, 0, 0 >>     \* 0x0000000080000000
q_hi_leaf_ext == << 0, 0, 0, 128, 1, 0, 0, 0 >>     \* 0x0000000180000000
q_hi_1        == << 1, 0, 0, 0, 1, 0, 0, 0 >>       \* 0x0000000100000001
q_leaf_ext1   == << 1, 0, 0, 128, 0, 0, 0, 0 >>     \* 0x0000000080000001

\* programs that request the end of the emulation more than once
progs_resume ==
    {<< 244 >>,                                \* f4  hlt
     << 137, 200, 244, 137, 200, 15, 5 >>,     \* 89 c8; f4; 89 c8; 0f 05  mov; hlt; mov; syscall
     << 15, 5, 137, 200, 15, 5 >> }            \* 0f 05; 89 c8; 0f 05  syscall; mov; syscall
q_hlt == << 244, 244, 244, 244, 244, 244, 244, 244 >>

\* doubles whose low half is a float of the same kind
d_negzero == << 0, 0, 0, 128, 0, 0, 0, 128 >>          \* -0.0, -0.0f
d_one     == << 0, 0, 128, 63, 0, 0, 240, 63 >>        \* just above 1.0, 1.0f
d_negtwo  == << 0, 0, 0, 192, 0, 0, 0, 192 >>          \* just below -2.0, -2.0f
d_nan     == << 0, 0, 192, 127, 0, 0, 248, 127 >>      \* quiet NaN, quiet NaN
d_inf     == << 0, 0, 0, 0, 0, 0, 240, 127 >>          \* +infinity, +0.0f
d_finf    == << 0, 0, 128, 127, 0, 0, 240, 255 >>      \* a negative NaN, +infinity
cases_compare ==
    Fam(progs_compare, {q_0, d_negzero, d_one, d_nan, d_inf, q_1, d_finf},
        {q_0, d_negzero, d_one, d_negtwo, d_nan, d_inf, q_1, d_finf}, {q_0},
        {d_one, d_nan}, {DataAddr}, {0, 2261}, {FALSE}, {FALSE})
cases_logic ==
    Fam(progs_logic, {q_0, q_hi_5, q_8180, q_hi_0}, {q_0, q_3, q_8180, q_hi_0}, {q_0},
        {q_8180}, {DataAddr}, {0, 2261}, {FALSE}, {FALSE})
q_mixed == << 17, 34, 51, 68, 85, 102, 119, 136 >>
cases_riprel ==
    Fam(progs_riprel, {q_hi_5, q_3}, {q_1, q_ones}, {q_0}, {q_mixed, q_8180},
        {DataAddr}, {0, 2261}, {FALSE}, {FALSE})
cases_movd ==
    Fam(progs_movd, {q_hi_5, q_8180}, {q_ones, q_3}, {q_0}, {q_mixed, q_8180},
        {DataAddr, q_data1}, {0}, {FALSE}, {FALSE})
cases_pshift ==
    Fam(progs_pshift, {q_0}, {q_3, FromNat(16, 8), FromNat(32, 8), FromNat(64, 8), q_hi_0},
        {q_0}, {q_mixed, q_8180}, {DataAddr}, {0}, {FALSE}, {FALSE})
cases_cpuid ==
    Fam(progs_cpuid,
        {q_0, q_1, q_3, q_leaf_ext, q_leaf_ext1, q_hi_0, q_hi_1, q_hi_leaf_ext, q_ones},
        {q_0, q_ones}, {q_0, q_ones}, {q_mixed}, {DataAddr}, {0}, {FALSE}, {FALSE})
cases_resume ==
    Fam(progs_resume, {q_exit, q_3}, {q_exit}, {q_0}, {q_hlt}, {DataAddr}, {0},
        {FALSE}, {FALSE, TRUE})
cases_stack ==
    Fam(progs_stack, {q_code8, q_8180}, {q_1}, {q_0}, {q_code8}, {DataAddr},
        {0}, {FALSE, TRUE}, {FALSE})

\* the machine common to the specifications below: every arm
Init ==
    \/ \E c \in cases_stack : InitWith(c)
    \/ \E c \in cases_fp : InitWith(c)
    \/ \E c \in cases_compare : InitWith(c)
    \/ \E c \in cases_logic : InitWith(c)
    \/ \E c \in cases_resume : InitWith(c)
    \/ \E c \in cases_cpuid : InitWith(c)
    \/ \E c \in cases_pshift : InitWith(c)
    \/ \E c \in cases_movd : InitWith(c)
    \/ \E c \in cases_riprel : InitWith(c)
    \/ \E c \in cases_scan : InitWith(c)
    \/ \E c \in cases_string : InitWith(c)
    \/ \E c \in cases_control : InitWith(c)
    \/ \E c \in cases_width : InitWith(c)
    \/ \E c \in cases_addr : InitWith(c)
    \/ \E c \in cases_unhandled : InitWith(c)
    \/ \E c \in cases_math : InitWith(c)
    \/ \E c \in cases_shift_cl : InitWith(c)
    \/ \E c \in cases_shift_imm : InitWith(c)
    \/ \E c \in cases_imul : InitWith(c)
    \/ \E c \in cases_muldiv : InitWith(c)
    \/ \E c \in cases_incdec : InitWith(c)
    \/ \E c \in cases_mov : InitWith(c)
    \/ \E c \in cases_mem : InitWith(c)
    \/ \E c \in cases_decode : InitWith(c)

Spec == Init /\ [][Next]_vars

\* One specification per family of arms: the loop of run() (entering it, its
\* head, the prefixes, leaving at hlt) with the arms of that family, on the
\* programs of that family.
InitMath == \E c \in cases_math : InitWith(c)
NextMath ==
    \/ run_enter \/ loop_head \/ run_return \/ do_hlt
    \/ do_prefix_rex \/ do_prefix_size
    \/ do_math_rm8_r8 \/ do_math_rm_r \/ do_math_r8_rm8 \/ do_math_r_rm
    \/ do_math_al_imm8 \/ do_math_ax_imm
SpecMath == InitMath /\ [][NextMath]_vars

InitShift ==
    \/ \E c \in cases_shift_cl : InitWith(c)
    \/ \E c \in cases_shift_imm : InitWith(c)
NextShift ==
    \/ run_enter \/ loop_head \/ run_return \/ do_hlt
    \/ do_prefix_rex \/ do_prefix_size
    \/ do_shift_rm8_imm8 \/ do_shift_rm_imm8 \/ do_shift_rm8_1 \/ do_shift_rm_1
    \/ do_shift_rm_cl \/ do_default
SpecShift == InitShift /\ [][NextShift]_vars

InitMul ==
    \/ \E c \in cases_imul : InitWith(c)
    \/ \E c \in cases_muldiv : InitWith(c)
NextMul ==
    \/ run_enter \/ loop_head \/ run_return \/ do_hlt
    \/ do_prefix_rex \/ do_prefix_size
    \/ do_0f \/ do_imul_69 \/ do_imul_6b \/ do_f6 \/ do_f7
SpecMul == InitMul /\ [][NextMul]_vars

InitMove ==
    \/ \E c \in cases_mov : InitWith(c)
    \/ \E c \in cases_incdec : InitWith(c)
    \/ \E c \in cases_mem : InitWith(c)
NextMove ==
    \/ run_enter \/ loop_head \/ run_return \/ do_hlt
    \/ do_prefix_rex \/ do_prefix_size \/ do_prefix_segment
    \/ do_mov_rm8_r8 \/ do_mov_rm_r \/ do_mov_r8_rm8 \/ do_mov_r_rm
    \/ do_fe \/ do_ff
SpecMove == InitMove /\ [][NextMove]_vars

InitDecode == \E c \in cases_decode : InitWith(c)
NextDecode ==
    \/ run_enter \/ loop_head \/ run_return \/ do_hlt
    \/ do_prefix_rex \/ do_prefix_size \/ do_prefix_cs_ds \/ do_lock
    \/ do_prefix_repeat
    \/ do_math_rm_r \/ do_jcxz \/ do_cmc \/ do_0f
SpecDecode == InitDecode /\ [][NextDecode]_vars

\* leaving run(): with end_emulation() called at any moment
InitControl == \E c \in cases_control : InitWith(c)
NextControl ==
    \/ run_enter \/ loop_head \/ run_return \/ call_end_emulation \/ do_hlt
    \/ do_prefix_rex \/ do_prefix_size \/ do_prefix_cs_ds \/ do_lock
    \/ do_prefix_repeat
    \/ do_math_rm_r \/ do_cmc \/ do_0f
SpecControl == InitControl /\ [][NextControl]_vars

InitWidth == \E c \in cases_width : InitWith(c)
NextWidth ==
    \/ run_enter \/ loop_head \/ run_return \/ do_hlt
    \/ do_prefix_rex \/ do_prefix_size \/ do_prefix_segment \/ do_lock
    \/ do_prefix_repeat
    \/ do_math_rm8_r8 \/ do_math_rm_r \/ do_math_r8_rm8
SpecWidth == InitWidth /\ [][NextWidth]_vars

InitAddr == \E c \in cases_addr : InitWith(c)
NextAddr ==
    \/ run_enter \/ loop_head \/ run_return \/ do_hlt
    \/ do_prefix_rex \/ do_prefix_size
    \/ do_mov_rm_r \/ do_mov_r_rm \/ do_lea
SpecAddr == InitAddr /\ [][NextAddr]_vars

InitUnhandled == \E c \in cases_unhandled : InitWith(c)
NextUnhandled ==
    \/ run_enter \/ loop_head \/ run_return \/ do_hlt
    \/ do_default \/ do_0f \/ do_f6 \/ do_f7 \/ do_fe \/ do_ff \/ do_d9
    \/ do_shift_rm8_imm8
SpecUnhandled == InitUnhandled /\ [][NextUnhandled]_vars

InitString == \E c \in cases_string : InitWith(c)
NextString ==
    \/ run_enter \/ loop_head \/ run_return \/ do_hlt
    \/ do_prefix_rex \/ do_prefix_repeat \/ do_movsb \/ do_stosb
SpecString == InitString /\ [][NextString]_vars

InitScan == \E c \in cases_scan : InitWith(c)
NextScan ==
    \/ run_enter \/ loop_head \/ run_return \/ do_hlt
    \/ do_prefix_rex \/ do_prefix_size \/ do_0f
SpecScan == InitScan /\ [][NextScan]_vars

InitFp == \E c \in cases_fp : InitWith(c)
NextFp ==
    \/ run_enter \/ loop_head \/ run_return \/ do_hlt
    \/ do_d9 \/ do_db \/ do_dd \/ do_de \/ do_df
SpecFp == InitFp /\ [][NextFp]_vars

InitCompare == \E c \in cases_compare : InitWith(c)
NextCompare ==
    \/ run_enter \/ loop_head \/ run_return \/ do_hlt
    \/ do_prefix_rex \/ do_prefix_size \/ do_prefix_repeat \/ do_0f
SpecCompare == InitCompare /\ [][NextCompare]_vars

InitLogic == \E c \in cases_logic : InitWith(c)
NextLogic ==
    \/ run_enter \/ loop_head \/ run_return \/ do_hlt
    \/ do_prefix_rex \/ do_prefix_size
    \/ do_math_rm_r \/ do_math_r8_rm8 \/ do_math_rm_imm8
    \/ do_test_rm8_r8 \/ do_test_rm_r \/ do_test_al_imm8 \/ do_test_ax_imm
SpecLogic == InitLogic /\ [][NextLogic]_vars

InitRipRel == \E c \in cases_riprel : InitWith(c)
NextRipRel ==
    \/ run_enter \/ loop_head \/ run_return \/ do_hlt
    \/ do_prefix_rex \/ do_prefix_size
    \/ do_lea \/ do_mov_rm_r \/ do_mov_r_rm \/ do_mov_rm8_imm8 \/ do_mov_rm_imm
    \/ do_math_rm8_imm8 \/ do_math_rm_imm \/ do_math_rm_imm8
    \/ do_f6 \/ do_f7 \/ do_imul_69 \/ do_imul_6b \/ do_shift_rm_imm8
    \/ do_d9 \/ do_db \/ do_ff
SpecRipRel == InitRipRel /\ [][NextRipRel]_vars

InitMovd == \E c \in cases_movd : InitWith(c)
NextMovd ==
    \/ run_enter \/ loop_head \/ run_return \/ do_hlt
    \/ do_prefix_rex \/ do_prefix_size \/ do_prefix_repeat \/ do_0f
SpecMovd == InitMovd /\ [][NextMovd]_vars

InitPshift == \E c \in cases_pshift : InitWith(c)
NextPshift ==
    \/ run_enter \/ loop_head \/ run_return \/ do_hlt
    \/ do_prefix_rex \/ do_prefix_size \/ do_prefix_repeat \/ do_0f
SpecPshift == InitPshift /\ [][NextPshift]_vars

InitCpuid == \E c \in cases_cpuid : InitWith(c)
NextCpuid ==
    \/ run_enter \/ loop_head \/ run_return \/ do_hlt \/ do_prefix_rex \/ do_0f
SpecCpuid == InitCpuid /\ [][NextCpuid]_vars

InitResume == \E c \in cases_resume : InitWith(c)
NextResume ==
    \/ run_enter \/ run_again \/ loop_head \/ run_return \/ call_end_emulation
    \/ do_hlt \/ do_mov_rm_r \/ do_0f
SpecResume == InitResume /\ [][NextResume]_vars

InitStack == \E c \in cases_stack : InitWith(c)
NextStack ==
    \/ run_enter \/ loop_head \/ run_return \/ do_hlt
    \/ do_prefix_rex \/ do_prefix_size
    \/ do_push_reg \/ do_pop_reg \/ do_push_imm \/ do_push_imm8
    \/ do_ret \/ do_call_rel32 \/ do_ff \/ do_default
SpecStack == InitStack /\ [][NextStack]_vars

(***************************************************************************)
(* The instruction that ran last, as its bytes encode it.  prev is the     *)
(* machine in front of the switch: prev.op is the opcode, the prefixes are *)
(* in prev.prefix_rex and prev.prefix_size, and prev.rip is at the byte    *)
(* after the opcode.  The fields of ModR/M and the operand width are read  *)
(* here from those bytes, as the architecture defines them.                *)
(***************************************************************************)

\* the last step was an arm of the switch
ArmRan == prev.status = "run" /\ prev.pc = "switch"
\* and the arm ran to its break: the loop is at its top again
Completed == ArmRan /\ status = "run" /\ instruction_count # prev.instruction_count

I_op2    == rip_val(prev, 1)[1]
\* the machine at the ModR/M byte, and after ModR/M, SIB and displacement
I_at_rm  == IF prev.op = 15 THEN [prev EXCEPT !.rip = AddNat(@, 1)] ELSE prev
I_modrm  == rip_val(I_at_rm, 1)[1]
I_mod    == I_modrm \div 64
I_digit  == (I_modrm \div 8) % 8
I_W      == HasBit(prev.prefix_rex, 8)
I_regno  == I_digit + (IF HasBit(prev.prefix_rex, 4) THEN 8 ELSE 0)
I_rmno   == (I_modrm % 8) + (IF HasBit(prev.prefix_rex, 1) THEN 8 ELSE 0)
I_width  == IF I_W THEN 8 ELSE IF prev.prefix_size = 102 THEN 2 ELSE 4
I_decoded == decode_rm(I_at_rm)
\* the immediate of w bytes that follows the operand bytes
I_imm(w) == rip_val(I_decoded, w)
\* the value of the r/m operand and of the reg operand in the machine s
I_rm_in(s, w) == get_rm([I_decoded EXCEPT !.regs = s.regs, !.mem = s.mem], w)
I_reg_in(s, w) == IF w = 1 THEN get_reg8([I_decoded EXCEPT !.regs = s.regs])
                  ELSE Trunc(s.regs[I_regno], w)

\* the opcodes by the operand they write; cmp (math 7) writes none
I_math(form) == math_ops(form) \ {56 + form}
I_rm_dest   == \/ prev.op \in I_math(1) \cup {137}
               \/ prev.op = 247 /\ I_digit \in {2, 3}
               \/ prev.op = 255 /\ I_digit \in {0, 1}
I_reg_dest  == \/ prev.op \in I_math(3) \cup {139, 105, 107}
               \/ prev.op = 15 /\ I_op2 = 175
I_acc_dest  == prev.op \in I_math(5)
I_muldiv    == prev.op = 247 /\ I_digit \in 4..7
I_rm8_dest  == \/ prev.op \in I_math(0) \cup {136}
               \/ prev.op = 246 /\ I_digit \in {2, 3}
               \/ prev.op = 254 /\ I_digit \in {0, 1}
I_reg8_dest == prev.op \in I_math(2) \cup {138}
I_al_dest   == prev.op \in I_math(4)
I_muldiv8   == prev.op = 246 /\ I_digit \in 4..7

\* the shifts and rotates that have an arm: c0 c1 d0 d1 d3
I_shift       == prev.op \in {192, 193, 208, 209, 211}
I_shift_width == IF prev.op \in {192, 208} THEN 1 ELSE I_width
I_shift_raw   == IF prev.op \in {192, 193} THEN I_imm(1)[1]
                 ELSE IF prev.op \in {208, 209} THEN 1
                 ELSE reg_b(prev, rcx)[1]
\* the count the architecture uses: 6 bits for a 64-bit operand, else 5
I_shift_count == I_shift_raw % (IF I_shift_width = 8 THEN 64 ELSE 32)

\* the general registers the instruction writes at the width I_width; a
\* division by zero faults and writes none
I_dest_regs ==
    IF I_rm_dest \/ (I_shift /\ I_shift_width # 1 /\ I_shift_count # 0)
    THEN (IF I_mod = 3 THEN {I_rmno} ELSE {})
    ELSE IF I_reg_dest THEN {I_regno}
    ELSE IF I_acc_dest THEN {rax}
    ELSE IF I_muldiv /\ ~(I_digit \in {6, 7} /\ IsZero(I_rm_in(prev, I_width)))
    THEN {rax, rdx}
    ELSE {}

\* the bytes << register, byte >> of an 8-bit register operand: without REX
\* the numbers 4..7 name ah, ch, dh, bh
I_reg8_bytes(i) == IF prev.prefix_rex = 0 /\ i \in 4..7 THEN {<< i - 4, 2 >>}
                   ELSE {<< i, 1 >>}
\* the bytes of the register file an instruction with an 8-bit or (under
\* 0x66) 16-bit destination writes
I_narrow_dest ==
    \/ I_rm8_dest \/ I_reg8_dest \/ I_al_dest \/ I_muldiv8
    \/ prev.op \in {192, 208}
    \/ I_width = 2 /\ (I_rm_dest \/ I_reg_dest \/ I_acc_dest \/ I_muldiv
                        \/ prev.op \in {193, 209, 211})
I_narrow_written ==
    IF I_rm8_dest \/ prev.op \in {192, 208}
    THEN (IF I_mod = 3 THEN I_reg8_bytes(I_rmno) ELSE {})
    ELSE IF I_reg8_dest THEN I_reg8_bytes(I_regno)
    ELSE IF I_al_dest THEN {<< rax, 1 >>}
    ELSE IF I_muldiv8 THEN {<< rax, 1 >>, << rax, 2 >>}
    ELSE IF I_muldiv THEN {<< r, k >> : r \in {rax, rdx}, k \in 1..2}
    ELSE IF I_reg_dest THEN {<< I_regno, k >> : k \in 1..2}
    ELSE IF I_acc_dest THEN {<< rax, k >> : k \in 1..2}
    ELSE IF I_mod = 3 THEN {<< I_rmno, k >> : k \in 1..2}
    ELSE {}

(***************************************************************************)
(* The architectural results the properties compare the machine with.      *)
(***************************************************************************)

\* rotates by one bit and by n bits, without and through the carry c
A_rol1(v) == LET c == IF val_signed(v) THEN 1 ELSE 0 IN Shl1(v, c)
A_ror1(v) == Shr1(v, v[1] % 2)
RECURSIVE A_rol(_, _)
A_rol(v, n) == IF n = 0 \/ Len(v) = 0 THEN v ELSE A_rol(A_rol1(v), n - 1)
RECURSIVE A_ror(_, _)
A_ror(v, n) == IF n = 0 \/ Len(v) = 0 THEN v ELSE A_ror(A_ror1(v), n - 1)
RECURSIVE A_rcl(_, _, _)
A_rcl(v, c, n) == IF n = 0 \/ Len(v) = 0 THEN v
                  ELSE A_rcl(Shl1(v, c), IF val_signed(v) THEN 1 ELSE 0, n - 1)
RECURSIVE A_rcr(_, _, _)
A_rcr(v, c, n) == IF n = 0 \/ Len(v) = 0 THEN v
                  ELSE A_rcr(Shr1(v, c), v[1] % 2, n - 1)

\* operation /digit on a, by the count n the architecture uses, carry c in
A_shift(digit, a, n, c) ==
    LET bits == 8 * Len(a)
    IN CASE digit = 0 -> A_rol(a, n % bits)
         [] digit = 1 -> A_ror(a, n % bits)
         [] digit = 2 -> A_rcl(a, c, n % (bits + 1))
         [] digit = 3 -> A_rcr(a, c, n % (bits + 1))
         [] digit \in {4, 6} -> Shl(a, n)
         [] digit = 5 -> Shr(a, n)
         [] digit = 7 -> Sar(a, n)

\* the operands a (destination) and b (source) of a math-group instruction,
\* its width in bytes and the carry it adds or subtracts
I_math_form  == prev.op % 8
I_math_kind  == (prev.op \div 8) % 8
I_math_width == IF I_math_form \in {0, 2, 4} THEN 1 ELSE I_width
I_math_a ==
    CASE I_math_form \in {0, 1} -> I_rm_in(prev, I_math_width)
      [] I_math_form \in {2, 3} -> I_reg_in(prev, I_math_width)
      [] I_math_form \in {4, 5} -> Trunc(prev.regs[rax], I_math_width)
I_math_b ==
    CASE I_math_form \in {0, 1} -> I_reg_in(prev, I_math_width)
      [] I_math_form \in {2, 3} -> I_rm_in(prev, I_math_width)
      [] I_math_form = 4 -> rip_val(prev, 1)
      [] I_math_form = 5 ->
            IF I_width = 8 THEN SExt(rip_val(prev, 4), 8) ELSE rip_val(prev, I_width)
I_math_cin == IF I_math_kind \in {2, 3} THEN CBit(prev) ELSE 0
\* the carry of a + b + cin and the borrow of a - (b + cin), exactly
A_carry  == CarryOut(I_math_a, I_math_b, I_math_cin) = 1
A_borrow == ULt(ZExt(I_math_a, I_math_width + 1),
                AddNat(ZExt(I_math_b, I_math_width + 1), I_math_cin))

\* the operands of imul 0f af / 69 / 6b and their exact signed product
I_imul   == prev.op \in {105, 107} \/ (prev.op = 15 /\ I_op2 = 175)
I_imul_a == IF prev.op = 15 THEN I_reg_in(prev, I_width) ELSE I_rm_in(prev, I_width)
I_imul_b == IF prev.op = 15 THEN I_rm_in(prev, I_width)
            ELSE IF prev.op = 107 THEN SExt(I_imm(1), I_width)
            ELSE IF I_width = 8 THEN SExt(I_imm(4), 8)
            ELSE I_imm(I_width)
A_product == MulT(SExt(I_imul_a, 2 * I_width), SExt(I_imul_b, 2 * I_width))
A_product_fits == A_product = SExt(Trunc(A_product, I_width), 2 * I_width)

\* div and idiv: f6 /6 /7 and f7 /6 /7, and their divisor
I_div       == prev.op \in {246, 247} /\ I_digit \in {6, 7}
I_div_width == IF prev.op = 246 THEN 1 ELSE I_width
I_divisor   == I_rm_in(prev, I_div_width)

\* the architectural state, and how run() ended, of the machine s
Arch(s) == [regs |-> s.regs, rflags |-> s.rflags, rip |-> s.rip, mem |-> s.mem,
            status |-> s.status, hook |-> s.hook]
\* an instruction has just ended: the loop is at its top, or run() is over
InsnEnded == /\ prev.status = "run"
             /\ (instruction_count # prev.instruction_count \/ status # "run")
Untraced(s) == [s EXCEPT !.g_State = IF HasBit(@, stateTraceInstructions)
                                     THEN @ - stateTraceInstructions ELSE @]

(***************************************************************************)
(* The properties.                                                         *)
(***************************************************************************)

\* C1: after an instruction whose destination is a 32-bit general register
\* (no REX.W, no 0x66), bits 63..32 of that register are zero.
C1_Dest32UpperZero ==
    Completed /\ I_width = 4 =>
        \A r \in I_dest_regs : \A k \in 5..8 : regs[r][k] = 0

\* C2: after an instruction whose destination is a 16-bit or an 8-bit general
\* register, every bit of the register file outside the bits it writes has
\* the value it had before the instruction.
C2_NarrowDestPreservesRest ==
    Completed /\ I_narrow_dest =>
        \A r \in 0..15 : \A k \in 1..8 :
            << r, k >> \notin I_narrow_written => regs[r][k] = prev.regs[r][k]

\* C3: after add and adc, CF is set exactly when a + b + cin >= 2^w; after
\* sub and sbb, exactly when a < b + cin; at every width w and for all
\* operands and carry in.
C3_CarryIsExact ==
    Completed /\ prev.op \in UNION {math_ops(f) : f \in 0..5} =>
        /\ I_math_kind \in {0, 2} => (flag_c(Cur) <=> A_carry)
        /\ I_math_kind \in {3, 5} => (flag_c(Cur) <=> A_borrow)

\* C4: a shift or rotate whose count is 0 after masking to the count width of
\* its operand leaves the destination and all of CF PF AF ZF SF OF as they
\* were.
C4_ZeroCountChangesNothing ==
    Completed /\ I_shift /\ I_shift_count = 0 =>
        /\ I_rm_in(Cur, I_shift_width) = I_rm_in(prev, I_shift_width)
        /\ rflags = prev.rflags

\* C5: a shift or rotate uses its raw count masked with 0x1f (8-, 16- and
\* 32-bit operands) or 0x3f (64-bit operands), and the destination holds the
\* architectural result for that count.
C5_CountMaskedAsArchitecture ==
    Completed /\ I_shift =>
        I_rm_in(Cur, I_shift_width) =
            A_shift(I_digit, I_rm_in(prev, I_shift_width), I_shift_count, CBit(prev))

\* C6: after imul 0f af, 69 and 6b at 16, 32 and 64 bits, CF = OF, and they
\* are 1 exactly when the exact signed product does not fit the destination.
C6_ImulOverflowIsExact ==
    Completed /\ I_imul =>
        /\ flag_c(Cur) <=> flag_o(Cur)
        /\ flag_o(Cur) <=> ~A_product_fits

\* C7: div and idiv with a divisor of zero invoke the termination hook: the
\* instruction does not complete.
C7_DivideByZeroTerminates ==
    ArmRan /\ I_div /\ IsZero(I_divisor) =>
        status = "terminated" /\ hook # "none"

\* C8: every guest access of w bytes at a lies in [base, base + length), or
\* the termination hook runs before a host byte outside the buffer is
\* touched: no access touches a byte outside the buffer.
C8_NoAccessOutsideBuffer == ~oob

\* C9: the decoder scratch is not read across instructions: an instruction
\* does what it does from the same architectural state with the scratch
\* cleared.
C9_ScratchDoesNotCarryOver ==
    InsnEnded => Arch(Cur) = Arch(RunInsn(clear_decoding(start)))

\* C10: tracing does not affect semantics: an instruction run with the trace
\* bit set ends as it does from the same state with the bit clear, in the
\* same registers, flags, rip and memory.
C10_TracingIsTransparent ==
    InsnEnded => Arch(Cur) = Arch(RunInsn(Untraced(start)))

(***************************************************************************)
(* Leaving run().                                                          *)
(***************************************************************************)

\* C11: whenever run() has returned, however end_emulation() was requested
\* (also between a prefix byte and the opcode it modifies), rip addresses
\* the first byte (the first prefix) of an instruction that has not been
\* executed: no consumed prefix is lost.
C11_ReturnsAtInstructionStart == status = "returned" => rip = insn_rip

\* C12: the value run() returns is the number of instructions executed in
\* the call: an instruction with all of its prefix bytes counts once, and
\* the pass of the loop that observes the end-emulation bit is not counted.
C12_CountIsInstructionsExecuted ==
    status = "returned" => instruction_count = executed

\* the instruction that has just completed requested termination: hlt, or
\* syscall whose hook called end_emulation()
C13_Requested ==
    /\ Completed
    /\ \/ prev.op = 244
       \/ prev.op = 15 /\ I_op2 = 5 /\ HasBit(g_State, stateEndEmulation)
\* C13: once hlt or the system-call hook has requested termination, the next
\* step of run() is its return, before any further instruction, with rip at
\* the instruction after the hlt or syscall and registers, flags and memory
\* as that instruction left them.
C13_ReturnsRightAfterRequest ==
    [][C13_Requested =>
         /\ rip = AddNat(prev.rip, IF prev.op = 15 THEN 1 ELSE 0)
         /\ status' = "returned"
         /\ rip' = rip /\ regs' = regs /\ rflags' = rflags /\ mem' = mem]_vars
\* run() has returned after the exit system call
C13_ReturnedAfterSyscall ==
    /\ status = "returned" /\ prev.op = 15 /\ prev.regs[rax] = q_exit
    /\ executed = 1 /\ rip = AddNat(base, 2)

(***************************************************************************)
(* Opcodes without an arm.                                                 *)
(***************************************************************************)

\* the instruction in front of the switch has no arm of its own: a one-byte
\* opcode or a second byte of 0x0f without a case, a /digit of a group that
\* no branch of the group names, or a register-form second byte of 0xd9
\* that no test of its arm names
I_no_arm ==
    \/ prev.op \in ops_default
    \/ prev.op = 15 /\ I_op2 \in ops_0f_default
    \/ prev.op = 15 /\ I_op2 = 24 /\ I_digit \in 4..7
    \/ prev.op = 246 /\ I_digit \in {1, 5}
    \/ prev.op = 247 /\ I_digit = 1
    \/ prev.op = 254 /\ I_digit \in 2..7
    \/ prev.op = 255 /\ I_digit \in {3, 5, 7}
    \/ I_shift /\ I_digit = 6
    \/ prev.op = 217 /\ I_mod = 3 /\ I_modrm \notin ops_d9_listed
    \/ prev.op = 217 /\ I_mod < 3 /\ I_digit = 1

\* C14: an opcode without an arm of its own ends in the termination hook:
\* it neither completes silently nor runs as some other instruction.
C14_NoArmReachesHook ==
    ArmRan /\ I_no_arm => status = "terminated" /\ hook = "opcode not handled"

(***************************************************************************)
(* The prefixes of the instruction that ran last, read from its bytes:     *)
(* start is the machine at the top of the loop, its rip at the first byte  *)
(* of the instruction.                                                     *)
(***************************************************************************)

I_byte_at(k) == getui(prev, AddNat(start.rip, k), 1)[1]
\* the number of prefix bytes in front of the opcode
RECURSIVE I_prefix_count(_)
I_prefix_count(k) ==
    IF k < MaxPrefixes /\ I_byte_at(k) \in prefix_bytes THEN I_prefix_count(k + 1)
    ELSE k
I_prefixes == {I_byte_at(k) : k \in 0..(I_prefix_count(0) - 1)}
I_has66 == 102 \in I_prefixes
I_has67 == 103 \in I_prefixes

\* the opcodes of the model with an operand whose width the prefixes select,
\* and the byte forms among the opcodes with ModR/M
I_width_ops == (ops_modrm \ {192, 208, 246, 254, 136, 138, 255})
               \ (math_ops(0) \cup math_ops(2))
I_byte_ops  == math_ops(0) \cup math_ops(2) \cup {136, 138, 192, 208, 246, 254}

\* the machine in front of the switch with the prefix scratch as the rule of
\* the operand width reads the prefixes: 0x66 recorded iff it is among the
\* prefixes, and for a byte form REX without its W bit
A_width_prefixes(s) ==
    [s EXCEPT !.prefix_size = IF I_has66 THEN 102 ELSE 0,
              !.prefix_rex = IF prev.op \in I_byte_ops /\ HasBit(@, 8)
                             THEN @ - 8 ELSE @]

\* the arm run at the width that rule gives
A_at_width == Exec(A_width_prefixes(prev), prev.op)

\* C15: the operand width of an arm is 64 bits iff REX.W is set, else 16
\* bits iff 0x66 is among the prefixes, else 32 bits, whatever other
\* prefixes there are and whatever their order, and a byte form works on 8
\* bits whatever REX.W is: the arm leaves the registers, flags and memory
\* that the operation at that width leaves (for a byte form: the flags, the
\* memory and the destination byte).
C15_WidthFromPrefixes ==
    /\ Completed /\ prev.op \in I_width_ops => Arch(Cur) = Arch(A_at_width)
    /\ Completed /\ prev.op \in I_byte_ops =>
          /\ rflags = A_at_width.rflags /\ mem = A_at_width.mem
          /\ \A b \in I_narrow_written : regs[b[1]][b[2]] = A_at_width.regs[b[1]][b[2]]

(***************************************************************************)
(* The address of a memory operand.                                        *)
(***************************************************************************)

\* the sum the ModR/M, SIB and displacement bytes of the instruction name
I_ea == effective_address(I_decoded)
\* the effective address: the low 32 bits of the sum under the address-size
\* prefix, the whole sum without it
A_ea == IF I_has67 THEN ZExt(Trunc(I_ea, 4), 8) ELSE I_ea

\* C16: with the prefix 0x67 on an instruction with a memory operand the
\* effective address is the sum truncated to its low 32 bits, and the whole
\* 64-bit sum without the prefix: lea writes that address, and mov loads
\* from it and stores to it.
C16_AddressSizeTruncates ==
    /\ Completed /\ prev.op = 141 /\ I_mod < 3
          => regs[I_regno] = ZExt(Trunc(A_ea, I_width), 8)
    /\ ArmRan /\ prev.op = 139 /\ I_mod < 3 /\ WithinBuffer(A_ea, I_width)
          => Completed /\ regs[I_regno] = ZExt(getui(prev, A_ea, I_width), 8)
    /\ ArmRan /\ prev.op = 137 /\ I_mod < 3 /\ WithinBuffer(A_ea, I_width)
          => Completed /\ mem = setui(prev, A_ea, Trunc(prev.regs[I_regno], I_width)).mem

(***************************************************************************)
(* The registers of a byte-form instruction.                               *)
(***************************************************************************)

\* the 8-bit register operand encoded as index i, in the machine s: without
\* a REX prefix the indices 4..7 are ah, ch, dh, bh
A_reg8(s, i) == IF prev.prefix_rex = 0 /\ i \in 4..7 THEN << s.regs[i - 4][2] >>
                ELSE << s.regs[i][1] >>

\* a byte form with two register operands: math r/m8, r8 (00..38), math r8,
\* r/m8 (02..3a), mov r/m8, r8 (88) and mov r8, r/m8 (8a)
I_byte_rr   == /\ I_mod = 3
               /\ prev.op \in math_ops(0) \cup math_ops(2) \cup {136, 138}
I_byte_dest == IF prev.op \in math_ops(0) \cup {136} THEN I_rmno ELSE I_regno
I_byte_src  == IF prev.op \in math_ops(0) \cup {136} THEN I_regno ELSE I_rmno
\* the byte the instruction leaves in its destination
A_byte_result ==
    LET a == A_reg8(prev, I_byte_dest)
        b == A_reg8(prev, I_byte_src)
        kind == (prev.op \div 8) % 8
    IN IF prev.op \in {136, 138} THEN b
       ELSE CASE kind = 0 -> Add(a, b)
              [] kind = 1 -> Or(a, b)
              [] kind = 2 -> Add3(a, b, CBit(prev))
              [] kind = 3 -> Sub3(a, b, CBit(prev))
              [] kind = 4 -> And(a, b)
              [] kind = 5 -> Sub(a, b)
              [] kind = 6 -> Xor(a, b)
              [] kind = 7 -> a

\* C17: a byte-form instruction reads and writes, for a register operand
\* encoded as index i, bits 15..8 of register i-4 when it has no REX prefix
\* and 4 <= i <= 7, and bits 7..0 of register i otherwise: its destination
\* holds the result computed from those operands.
C17_ByteRegisterSelection ==
    Completed /\ I_byte_rr => A_reg8(Cur, I_byte_dest) = A_byte_result

\* a shl, shr or sar whose architectural count n is at least 1 and at most
\* the operand's width in bits
I_sh_bits    == 8 * I_shift_width
I_sh_counted == /\ I_shift /\ I_digit \in {4, 5, 7}
                /\ I_shift_count >= 1 /\ I_shift_count <= I_sh_bits
\* the last bit such a shift moves out of its source
A_last_out ==
    LET a == I_rm_in(prev, I_shift_width)
    IN IF I_digit = 4 THEN Bit(a, I_sh_bits - I_shift_count)
       ELSE Bit(a, I_shift_count - 1)

\* C18: after shl, shr or sar with a masked count n >= 1, CF is the last bit
\* shifted out of the destination: bit w-n of the source for shl (n <= w),
\* bit n-1 of the source for shr and sar.
C18_CarryIsLastBitOut ==
    Completed /\ I_sh_counted => CBit(Cur) = A_last_out

\* OF after shl, shr or sar by one: shl, the two top bits of the source
\* differ; shr, the top bit of the source; sar, clear
A_shift1_overflow ==
    LET a == I_rm_in(prev, I_shift_width)
    IN CASE I_digit = 4 -> Bit(a, I_sh_bits - 1) # Bit(a, I_sh_bits - 2)
         [] I_digit = 5 -> Bit(a, I_sh_bits - 1) = 1
         [] OTHER       -> FALSE

\* C19: after a shift by exactly 1, shl sets OF iff the two most significant
\* bits of the source differ, shr sets OF to the most significant bit of the
\* source, and sar clears OF.
C19_OverflowAfterShiftByOne ==
    Completed /\ I_sh_counted /\ I_shift_count = 1 =>
        (flag_o(Cur) <=> A_shift1_overflow)

\* a rotate: rol /0, ror /1, rcl /2, rcr /3
I_rotate == I_shift /\ I_digit \in 0..3

\* C20: the rotates use the architectural bit positions. For a count of 1,
\* rcl leaves the old CF in bit 0 of the result and the source's most
\* significant bit in CF; rcr leaves the old CF in the most significant bit
\* of the result and the source's bit 0 in CF. rol and ror leave in CF the bit
\* that wrapped around (bit 0 of the result of rol, the most significant bit
\* of the result of ror). OF is modified only when the count is 1.
C20_RotateBitPositions ==
    Completed /\ I_rotate =>
        LET a == I_rm_in(prev, I_shift_width)
            r == I_rm_in(Cur, I_shift_width)
            n == I_shift_count
            top == I_sh_bits - 1
        IN /\ n = 1 /\ I_digit = 2 =>
                Bit(r, 0) = CBit(prev) /\ CBit(Cur) = Bit(a, top)
           /\ n = 1 /\ I_digit = 3 =>
                Bit(r, top) = CBit(prev) /\ CBit(Cur) = Bit(a, 0)
           /\ n >= 1 /\ I_digit = 0 =>
                CBit(Cur) = Bit(A_rol(a, n % I_sh_bits), 0)
           /\ n >= 1 /\ I_digit = 1 =>
                CBit(Cur) = Bit(A_ror(a, n % I_sh_bits), top)
           /\ n # 1 => (flag_o(Cur) <=> flag_o(prev))

\* inc (/0) and dec (/1) of fe and ff, the operand width and the exact result
I_incdec       == prev.op \in {254, 255} /\ I_digit \in {0, 1}
I_incdec_width == IF prev.op = 254 THEN 1 ELSE I_width
A_incdec ==
    LET a == I_rm_in(prev, I_incdec_width)
    IN IF I_digit = 0 THEN AddNat(a, 1) ELSE SubNat(a, 1)
\* inc overflows from the largest positive value, dec from the most negative
A_incdec_overflow ==
    LET a == I_rm_in(prev, I_incdec_width)
    IN IF I_digit = 0 THEN ~val_signed(a) /\ val_signed(A_incdec)
       ELSE val_signed(a) /\ ~val_signed(A_incdec)
\* the bits of rflags outside CF PF AF ZF SF OF
OtherFlagBits(s) ==
    {n \in 0..15 \ {0, 2, 4, 6, 7, 11} : flag(s, n)}

\* C21: inc and dec at every width leave CF unchanged, set OF iff the
\* operation overflows as a signed operation, set PF, ZF and SF from the
\* result, and change no flag bit outside the arithmetic flags.
C21_IncDecFlags ==
    Completed /\ I_incdec =>
        /\ flag_c(Cur) <=> flag_c(prev)
        /\ flag_o(Cur) <=> A_incdec_overflow
        /\ flag_z(Cur) <=> IsZero(A_incdec)
        /\ flag_s(Cur) <=> val_signed(A_incdec)
        /\ flag_p(Cur) <=> is_parity_even8(A_incdec[1])
        /\ OtherFlagBits(Cur) = OtherFlagBits(prev)

\* add, adc, sub and sbb of the math group (kinds 0, 2, 5 and 3)
I_addsub == /\ prev.op \in UNION {math_ops(f) : f \in 0..5}
            /\ I_math_kind \in {0, 2, 3, 5}
\* the exact signed result, in one byte more than the operands
A_addsub_exact ==
    LET a == SExt(I_math_a, I_math_width + 1)
        b == SExt(I_math_b, I_math_width + 1)
    IN IF I_math_kind \in {0, 2} THEN Add3(a, b, I_math_cin)
       ELSE Sub3(a, b, I_math_cin)
\* it lies outside the signed range of the operand width
A_signed_overflow ==
    A_addsub_exact # SExt(Trunc(A_addsub_exact, I_math_width), I_math_width + 1)
\* the destination operand after the instruction
I_math_dest_now ==
    CASE I_math_form \in {0, 1} -> I_rm_in(Cur, I_math_width)
      [] I_math_form \in {2, 3} -> I_reg_in(Cur, I_math_width)
      [] I_math_form \in {4, 5} -> Trunc(regs[rax], I_math_width)

\* C22: after add, adc, sub and sbb at every width, OF is set exactly when
\* the exact signed result a + b + cin (a - b - cin) lies outside the signed
\* range of the width, and the destination holds the exact result modulo 2^w.
C22_SignedOverflowIsExact ==
    Completed /\ I_addsub =>
        /\ flag_o(Cur) <=> A_signed_overflow
        /\ I_math_dest_now = Trunc(A_addsub_exact, I_math_width)

\* the instruction that ran before the last one, read from the bytes at
\* earlier.rip: an optional REX prefix and the opcode
E_first  == getui(earlier, earlier.rip, 1)[1]
E_rex    == IF E_first \in ops_rex THEN E_first ELSE 0
E_at_op  == IF E_rex = 0 THEN earlier ELSE [earlier EXCEPT !.rip = AddNat(@, 1)]
E_op     == rip_val(E_at_op, 1)[1]
\* the last two instructions ran one after the other in this call of run()
E_consecutive ==
    /\ Completed /\ earlier.status = "run" /\ earlier.pc = "head"
    /\ start.instruction_count = earlier.instruction_count + 1
    /\ prev.instruction_count = start.instruction_count

\* push x immediately followed by pop y, both completed
I_push_pop ==
    /\ E_consecutive /\ E_op \in 80..87 /\ prev.op \in 88..95
    /\ start.rip = AddNat(E_at_op.rip, 1)
I_pushed == (E_op % 8) + (IF HasBit(E_rex, 1) THEN 8 ELSE 0)
I_popped == (prev.op % 8) + (IF HasBit(prev.prefix_rex, 1) THEN 8 ELSE 0)

E_decoded == decode_rm([E_at_op EXCEPT !.rip = AddNat(@, 1)])
E_digit   == (rip_val([E_at_op EXCEPT !.rip = AddNat(@, 1)], 1)[1] \div 8) % 8
E_call    == E_op = 232 \/ (E_op = 255 /\ E_digit = 2)
A_call_next ==
    IF E_op = 232 THEN AddNat(E_at_op.rip, 5) ELSE E_decoded.rip
A_call_target ==
    IF E_op = 232
    THEN Add(A_call_next, sign_extend(rip_val([E_at_op EXCEPT !.rip = AddNat(@, 1)], 4), 8))
    ELSE get_rm(E_decoded, 8)
\* a call whose target begins with ret (c3), and the instruction after it
I_call_to_ret ==
    /\ E_consecutive /\ E_call
    /\ WithinBuffer(A_call_target, 1)
    /\ getui(earlier, A_call_target, 1) = << 195 >>

\* C24: when a call whose target begins with ret and the instruction after
\* the call have executed, that instruction was the ret, rip is the address
\* of the instruction following the call and rsp has its value from before
\* the call.
C24_CallRetReturns ==
    I_call_to_ret =>
        /\ prev.op = 195
        /\ rip = A_call_next
        /\ regs[rsp] = earlier.regs[rsp]

\* C25: call r/m64 (ff /2) sets rip to the value its operand had when the
\* instruction started: an operand addressed through rsp, or rsp itself, is
\* evaluated with the rsp from before the return address is pushed.
C25_CallTargetIsOperandAtStart ==
    Completed /\ prev.op = 255 /\ I_digit = 2 => rip = I_rm_in(prev, 8)

\* push: 50..57 (register), 68 and 6a (immediate), ff /6 (r/m); pop: 58..5f
\* (register), 8f /0 (r/m)
I_push == prev.op \in 80..87 \cup {104, 106} \/ (prev.op = 255 /\ I_digit = 6)
I_pop  == prev.op \in 88..95 \/ (prev.op = 143 /\ I_digit = 0)
\* the bytes the instruction transfers: 2 under 0x66, else 8
I_stack_width == IF prev.prefix_size = 102 THEN 2 ELSE 8
\* the value a push stores
A_pushed ==
    CASE prev.op \in 80..87 ->
           Trunc(prev.regs[(prev.op % 8) + (IF HasBit(prev.prefix_rex, 1) THEN 8 ELSE 0)],
                 I_stack_width)
      [] prev.op = 104 ->
           Trunc(SExt(rip_val(prev, IF I_stack_width = 2 THEN 2 ELSE 4), 8), I_stack_width)
      [] prev.op = 106 -> Trunc(SExt(rip_val(prev, 1), 8), I_stack_width)
      [] OTHER -> I_rm_in(prev, I_stack_width)
\* the stack bytes the instruction uses lie in the image
I_stack_valid ==
    IF I_push THEN WithinBuffer(SubNat(prev.regs[rsp], I_stack_width), I_stack_width)
    ELSE WithinBuffer(prev.regs[rsp], I_stack_width)
\* memory differs from what it was before the instruction only in the n
\* bytes at address a
OnlyWritten(a, n) ==
    LET o == ToNat(Trunc(getoffset(a), 2))
    IN \A k \in 1..MemSize : (k <= o \/ k > o + n) => mem[k] = prev.mem[k]

\* C26: push and pop in their register, immediate and r/m forms transfer
\* exactly 8 bytes and move rsp by exactly 8 without a 0x66 prefix, and
\* exactly 2 bytes and 2 with it.
C26_StackTransferWidth ==
    /\ ArmRan /\ I_push /\ I_stack_valid =>
          /\ Completed
          /\ regs[rsp] = SubNat(prev.regs[rsp], I_stack_width)
          /\ getui(Cur, regs[rsp], I_stack_width) = A_pushed
          /\ OnlyWritten(regs[rsp], I_stack_width)
    /\ ArmRan /\ I_pop /\ I_stack_valid =>
          /\ Completed
          /\ regs[rsp] = AddNat(prev.regs[rsp], I_stack_width)
          /\ mem = prev.mem
          /\ prev.op \in 88..95 =>
                LET y == (prev.op % 8) + (IF HasBit(prev.prefix_rex, 1) THEN 8 ELSE 0)
                IN /\ Trunc(regs[y], I_stack_width)
                        = getui(prev, prev.regs[rsp], I_stack_width)
                   /\ \A k \in (I_stack_width + 1)..8 : regs[y][k] = prev.regs[y][k]

\* a string instruction with a repeat prefix (f2 or f3) among its prefixes,
\* its count, and the direction flag, before it ran
I_rep       == I_prefixes \cap {242, 243} # {}
I_rep_count == ToNat(Trunc(prev.regs[rcx], 2))
I_down      == flag(prev, 10)
\* the address k elements of one byte away from a in the direction of DF, and
\* the index in mem of the byte at an address
A_string_at(a, k) == IF I_down THEN SubNat(a, k) ELSE AddNat(a, k)
MemIndex(a) == ToNat(Trunc(getoffset(a), 2)) + 1

\* C27: rep stosb with rcx = n writes al to exactly the n bytes at rdi0,
\* rdi0 + 1 .. (DF = 0) or rdi0, rdi0 - 1 .. (DF = 1) and to no other memory,
\* and leaves rcx = 0 and rdi = rdi0 + n (DF = 0) or rdi0 - n (DF = 1).
C27_RepStosbFills ==
    Completed /\ prev.op = 170 /\ I_rep =>
        LET written == {MemIndex(A_string_at(prev.regs[rdi], j)) :
                            j \in 0..(I_rep_count - 1)}
        IN /\ IsZero(regs[rcx])
           /\ regs[rdi] = A_string_at(prev.regs[rdi], I_rep_count)
           /\ \A k \in 1..MemSize :
                mem[k] = IF k \in written THEN prev.regs[rax][1] ELSE prev.mem[k]
\* rep stosb has filled three bytes downwards
C27_FilledDownwards ==
    /\ Completed /\ prev.op = 170 /\ I_rep /\ I_rep_count = 3 /\ I_down
    /\ mem # prev.mem /\ regs[rdi] = SubNat(prev.regs[rdi], 3)

\* memory m after the elements k .. n - 1 of a byte copy from address from
\* to address to, one after the other in the direction of DF
RECURSIVE A_copied(_, _, _, _, _)
A_copied(m, from, to, k, n) ==
    IF k >= n THEN m
    ELSE A_copied([m EXCEPT ![MemIndex(A_string_at(to, k))] =
                                m[MemIndex(A_string_at(from, k))]],
                  from, to, k + 1, n)
\* the elements movsb copies: rcx of them with a repeat prefix, else one
I_movs_count == IF I_rep THEN I_rep_count ELSE 1

\* C28: rep movsb with rcx = n copies the byte at rsi0 - k to rdi0 - k
\* (DF = 1) or at rsi0 + k to rdi0 + k (DF = 0) for k = 0 .. n - 1 in that
\* order and leaves rcx = 0, rsi and rdi moved by n; without a repeat prefix
\* one element is copied and rcx is unchanged.
C28_MovsbCopies ==
    Completed /\ prev.op = 164 =>
        /\ mem = A_copied(prev.mem, prev.regs[rsi], prev.regs[rdi], 0, I_movs_count)
        /\ regs[rsi] = A_string_at(prev.regs[rsi], I_movs_count)
        /\ regs[rdi] = A_string_at(prev.regs[rdi], I_movs_count)
        /\ regs[rcx] = IF I_rep THEN Zero(8) ELSE prev.regs[rcx]
\* rep movsb has copied three bytes downwards
C28_CopiedDownwards ==
    /\ Completed /\ prev.op = 164 /\ I_rep /\ I_rep_count = 3 /\ I_down
    /\ mem # prev.mem /\ regs[rsi] = SubNat(prev.regs[rsi], 3)

(***************************************************************************)
(* C29.  BSF and BSR.                                                      *)
(***************************************************************************)

I_scan     == prev.op = 15 /\ I_op2 \in {188, 189}
I_scan_src == I_rm_in(prev, I_width)
\* the indexes of the set bits of v
A_set_bits(v) == {n \in 0..(8 * Len(v) - 1) : Bit(v, n) = 1}
A_lowest(v)  == CHOOSE n \in A_set_bits(v) : \A k \in A_set_bits(v) : n <= k
A_highest(v) == CHOOSE n \in A_set_bits(v) : \A k \in A_set_bits(v) : n >= k

\* C29: after bsf or bsr at width 16, 32 or 64, ZF is 1 exactly when the
\* source operand is zero, and for a source that is not zero the destination
\* register holds, at the operand width, the index of the lowest (bsf) or
\* highest (bsr) set bit of the source.
C29_BitScanIndex ==
    Completed /\ I_scan =>
        /\ flag_z(Cur) <=> IsZero(I_scan_src)
        /\ ~IsZero(I_scan_src) =>
               Trunc(regs[I_regno], I_width) =
                   FromNat(IF I_op2 = 188 THEN A_lowest(I_scan_src)
                           ELSE A_highest(I_scan_src), I_width)

\* a bsr at width 16 found bit 15 of a source with lower bits set too, and
\* cleared a ZF that was set
C29_HighestOfSixteen ==
    /\ Completed /\ I_scan /\ I_op2 = 189 /\ I_width = 2
    /\ ~IsZero(I_scan_src) /\ A_lowest(I_scan_src) = 7
    /\ Trunc(regs[I_regno], 2) = FromNat(15, 2)
    /\ flag_z(prev) /\ ~flag_z(Cur)

(***************************************************************************)
(* C30.  The x87 register stack.                                           *)
(***************************************************************************)

I_st == I_modrm % 8
I_fp_reg(o, lo, hi) == prev.op = o /\ I_modrm \in lo..hi
I_fp_mem(o, digit)  == prev.op = o /\ I_mod < 3 /\ I_digit = digit
I_fld_st      == I_fp_reg(217, 192, 199)
I_fxch        == I_fp_reg(217, 200, 207)
I_fdecstp     == I_fp_reg(217, 246, 246)
I_fincstp     == I_fp_reg(217, 247, 247)
I_fstp_st     == I_fp_reg(221, 216, 223)
I_arith_pop   == I_fp_reg(222, 192, 207) \/ I_fp_reg(222, 224, 255)
I_compare_pop == \/ I_fp_reg(223, 232, 247) \/ I_fp_reg(216, 216, 223)
                 \/ I_fp_mem(216, 3) \/ I_fp_mem(220, 3)
\* fptan, fxtract, fsincos: st(0) is replaced and a second result pushed
I_two_results == prev.op = 217 /\ I_modrm \in {242, 244, 251}
\* fld, fild, the constants, the second results, fdecstp
I_fp_push ==
    \/ I_fld_st \/ I_fp_mem(217, 0) \/ I_fp_mem(221, 0) \/ I_fp_mem(219, 5)
    \/ I_fp_mem(223, 0) \/ I_fp_mem(219, 0) \/ I_fp_mem(223, 5)
    \/ I_fp_reg(217, 232, 238) \/ I_two_results \/ I_fdecstp
\* fstp, fistp, the arithmetic and the compares that pop, fincstp
I_fp_pop ==
    \/ I_fstp_st \/ I_fp_mem(217, 3) \/ I_fp_mem(221, 3) \/ I_fp_mem(219, 7)
    \/ I_fp_mem(223, 3) \/ I_fp_mem(219, 3) \/ I_fp_mem(223, 7)
    \/ I_arith_pop \/ I_compare_pop \/ I_fincstp
\* st(i) of the machine s: slot (sp + i) mod 8
A_st(s, i) == s.fregs[(s.fp_sp + i) % 8]

I_fnstsw_ax == I_fp_reg(223, 224, 224)
I_fnstenv   == I_fp_mem(217, 6)
\* bits 11..13 of a status word
A_top(w) == (w[2] \div 8) % 8

\* C31: the status word an instruction hands to the guest, in ax after
\* fnstsw ax and in the environment image fnstenv stores, has the current
\* top-of-stack index in its TOP field
C31_StatusTopIsSp ==
    /\ Completed /\ I_fnstsw_ax => A_top(Trunc(regs[rax], 2)) = fp_sp
    /\ Completed /\ I_fnstenv => A_top(getui(Cur, I_ea, 2)) = fp_sp

(***************************************************************************)
(* C32.  fstp m80 followed by fld m80 of the same address.                 *)
(***************************************************************************)

E_modrm == rip_val([E_at_op EXCEPT !.rip = AddNat(@, 1)], 1)[1]
E_ea    == effective_address(E_decoded)
\* fstp m80 (db /7) immediately followed by fld m80 (db /5) of the same
\* address, both completed
I_m80_round_trip ==
    /\ E_consecutive /\ E_op = 219 /\ E_modrm < 192 /\ E_digit = 7
    /\ I_fp_mem(219, 5)
    /\ E_ea = I_ea

\* C32: after fstp m80 and fld m80 of the same address st(0) is, bit for
\* bit, the value x that was on top before; the 10 bytes at the address are
\* x; no other byte of memory changed; and sp and every slot of the
\* register stack are as they were before the fstp.
C32_ExtendedRoundTrip ==
    I_m80_round_trip =>
        /\ A_st(Cur, 0) = A_st(earlier, 0)
        /\ getui(Cur, I_ea, 10) = A_st(earlier, 0)
        /\ \A k \in 1..MemSize :
               (k < MemIndex(I_ea) \/ k > MemIndex(I_ea) + 9)
                   => mem[k] = earlier.mem[k]
        /\ fp_sp = earlier.fp_sp
        /\ fregs = earlier.fregs

\* the round trip of an unnormal (a non-zero significand without its
\* integer bit), with the top away from slot 0, over memory that held
\* something else, and above a slot that holds 1.0
C32_UnnormalSurvives ==
    /\ I_m80_round_trip
    /\ ld_mant(A_st(Cur, 0))[8] < 128 /\ ~IsZero(ld_mant(A_st(Cur, 0)))
    /\ fp_sp = 5
    /\ getui(earlier, I_ea, 10) # A_st(Cur, 0)
    /\ getui(Cur, I_ea, 10) = A_st(Cur, 0)
    /\ A_st(Cur, 1) = float_d9_e8_constants[1]

(***************************************************************************)
(* C33.  ucomiss, ucomisd, comiss, comisd.                                 *)
(***************************************************************************)

I_comis == prev.op = 15 /\ I_op2 \in {46, 47} /\ prev.prefix_sse2_repeat = 0
I_comis_width == IF prev.prefix_size = 102 THEN 8 ELSE 4
\* lane 0 of the first operand and of the second operand
I_comis_a == SubSeq(prev.xregs[I_regno], 1, I_comis_width)
I_comis_b == IF I_mod = 3 THEN SubSeq(prev.xregs[I_rmno], 1, I_comis_width)
             ELSE getui(prev, I_ea, I_comis_width)
\* the relation of two IEEE values read from their encodings: without the
\* sign bit an encoding above that of infinity is a NaN, and the encodings
\* of the other values are ordered as the magnitudes are
A_mag(v) == [v EXCEPT ![Len(v)] = @ % 128]
A_inf(w) == IF w = 8 THEN << 0, 0, 0, 0, 0, 0, 240, 127 >> ELSE << 0, 0, 128, 127 >>
A_nan(v) == ULt(A_inf(Len(v)), A_mag(v))
A_unordered(a, b) == A_nan(a) \/ A_nan(b)
A_equal(a, b) ==
    /\ ~A_unordered(a, b)
    /\ a = b \/ (IsZero(A_mag(a)) /\ IsZero(A_mag(b)))
A_less(a, b) ==
    /\ ~A_unordered(a, b) /\ ~A_equal(a, b)
    /\ IF val_signed(a) # val_signed(b) THEN val_signed(a)
       ELSE IF val_signed(a) THEN ULt(A_mag(b), A_mag(a))
       ELSE ULt(A_mag(a), A_mag(b))

\* C33: ucomiss, ucomisd, comiss and comisd set ZF, PF and CF from the
\* relation of the two lane-0 operands alone: unordered gives ZF = PF = CF
\* = 1, equal ZF = 1 and PF = CF = 0, less CF = 1 and ZF = PF = 0, greater
\* ZF = PF = CF = 0; and OF, AF and SF are 0 afterwards.
C33_CompareSetsFlags ==
    Completed /\ I_comis =>
        /\ flag_z(Cur) <=> (A_unordered(I_comis_a, I_comis_b)
                            \/ A_equal(I_comis_a, I_comis_b))
        /\ flag_p(Cur) <=> A_unordered(I_comis_a, I_comis_b)
        /\ flag_c(Cur) <=> (A_unordered(I_comis_a, I_comis_b)
                            \/ A_less(I_comis_a, I_comis_b))
        /\ ~flag_o(Cur) /\ ~flag_a(Cur) /\ ~flag_s(Cur)

\* ucomisd of 1.0 and a NaN with all six flags clear before: ZF, PF and CF
\* are set, OF, AF and SF stay clear
C33_UnorderedDouble ==
    /\ Completed /\ I_comis /\ I_op2 = 46 /\ I_comis_width = 8
    /\ ~A_nan(I_comis_a) /\ A_nan(I_comis_b)
    /\ prev.rflags = 0
    /\ flag_z(Cur) /\ flag_p(Cur) /\ flag_c(Cur)
    /\ ~flag_o(Cur) /\ ~flag_a(Cur) /\ ~flag_s(Cur)

(***************************************************************************)
(* C34.  and, or, xor and test.                                            *)
(***************************************************************************)

I_test == \/ prev.op \in {132, 133, 168, 169}
          \/ prev.op \in {246, 247} /\ I_digit = 0
I_logic_imm == prev.op \in {128, 129, 131} /\ I_digit \in {1, 4, 6}
I_logic_math == /\ prev.op \in UNION {math_ops(f) : f \in 0..5}
                /\ I_math_kind \in {1, 4, 6}
I_logic == I_test \/ I_logic_imm \/ I_logic_math
\* 1 or, 4 and, 6 xor
I_logic_kind == IF I_test THEN 4 ELSE IF I_logic_imm THEN I_digit ELSE I_math_kind
I_logic_width ==
    IF I_logic_math THEN I_math_width
    ELSE IF prev.op \in {128, 132, 168, 246} THEN 1 ELSE I_width
\* the immediate of the forms that have one, at the operand width
I_logic_immediate(at) ==
    CASE prev.op \in {128, 168, 246} -> rip_val(at, 1)
      [] prev.op = 131 -> SExt(rip_val(at, 1), I_logic_width)
      [] prev.op \in {129, 169, 247} ->
            IF I_logic_width = 8 THEN SExt(rip_val(at, 4), 8)
            ELSE rip_val(at, I_logic_width)
I_logic_a ==
    IF I_logic_math THEN I_math_a
    ELSE IF prev.op \in {168, 169} THEN Trunc(prev.regs[rax], I_logic_width)
    ELSE I_rm_in(prev, I_logic_width)
I_logic_b ==
    IF I_logic_math THEN I_math_b
    ELSE IF prev.op \in {132, 133} THEN I_reg_in(prev, I_logic_width)
    ELSE IF prev.op \in {168, 169} THEN I_logic_immediate(prev)
    ELSE I_logic_immediate(I_decoded)
A_logic ==
    CASE I_logic_kind = 1 -> Or(I_logic_a, I_logic_b)
      [] I_logic_kind = 4 -> And(I_logic_a, I_logic_b)
      [] I_logic_kind = 6 -> Xor(I_logic_a, I_logic_b)
\* the byte has an even number of bits set
A_even_parity(byte) ==
    Cardinality({i \in 0..7 : (byte \div Pow2(i)) % 2 = 1}) % 2 = 0

\* C34: and, or, xor and test at every width clear CF and OF, leave AF as
\* it was, set PF iff the low byte of the result has even parity, ZF iff the
\* result is zero and SF to the top bit of the result; test changes neither
\* registers nor memory.
C34_LogicFlags ==
    Completed /\ I_logic =>
        /\ ~flag_c(Cur) /\ ~flag_o(Cur)
        /\ flag_a(Cur) <=> flag_a(prev)
        /\ flag_p(Cur) <=> A_even_parity(A_logic[1])
        /\ flag_z(Cur) <=> IsZero(A_logic)
        /\ flag_s(Cur) <=> val_signed(A_logic)
        /\ I_test => regs = prev.regs /\ mem = prev.mem

(***************************************************************************)
(* RIP-relative operands.                                                  *)
(***************************************************************************)

\* the opcodes with a ModR/M byte among the instructions with a RIP-relative
\* operand, and the last instruction being one of them with mod = 00 and
\* r/m = 101
I_riprel_ops == {105, 107, 128, 129, 131, 137, 139, 141, 193, 198, 199, 219,
                 246, 247, 255}
I_riprel ==
    Completed /\ I_mod = 0 /\ I_modrm % 8 = 5 /\ prev.op \in I_riprel_ops
\* the 32-bit displacement behind the ModR/M byte
I_disp32 == rip_val([I_at_rm EXCEPT !.rip = AddNat(@, 1)], 4)
\* the address of the next instruction plus the sign-extended displacement
A_riprel == Add(rip, SExt(I_disp32, 8))
\* the width of the memory operand
I_riprel_width ==
    IF prev.op \in {128, 198, 246} THEN 1
    ELSE IF prev.op = 219 THEN 10
    ELSE I_width
I_riprel_old == getui(prev, A_riprel, I_riprel_width)
I_riprel_new == getui(Cur, A_riprel, I_riprel_width)
\* the immediate behind the displacement
I_riprel_imm ==
    CASE prev.op \in {128, 198, 246} -> I_imm(1)
      [] prev.op \in {131, 107} -> SExt(I_imm(1), I_width)
      [] prev.op \in {129, 199, 247, 105} ->
            IF I_width = 8 THEN SExt(I_imm(4), 8) ELSE I_imm(I_width)
A_riprel_math ==
    CASE I_digit = 0 -> Add(I_riprel_old, I_riprel_imm)
      [] I_digit = 1 -> Or(I_riprel_old, I_riprel_imm)
      [] I_digit = 4 -> And(I_riprel_old, I_riprel_imm)
      [] I_digit = 6 -> Xor(I_riprel_old, I_riprel_imm)
\* the instruction stored val in its operand at A_riprel and nowhere else
A_riprel_stored(val) ==
    I_riprel_new = val /\ OnlyWritten(A_riprel, I_riprel_width)

\* C35: an operand with mod = 00 and r/m = 101 is at the address of the next
\* instruction (rip after the displacement and any immediate behind it) plus
\* the sign-extended 32-bit displacement, in every arm: lea yields that
\* address, a load reads the bytes there, and a store, a read-modify-write
\* or a move of an immediate writes the bytes there and no others.
C35_RipRelativeOperand ==
    I_riprel =>
        /\ WithinBuffer(A_riprel, I_riprel_width)
        /\ CASE prev.op = 141 -> regs[I_regno] = ZExt(Trunc(A_riprel, I_width), 8)
             [] prev.op = 139 -> regs[I_regno] = ZExt(I_riprel_old, 8) /\ mem = prev.mem
             [] prev.op = 137 -> A_riprel_stored(Trunc(prev.regs[I_regno], I_width))
             [] prev.op \in {198, 199} -> A_riprel_stored(I_riprel_imm)
             [] prev.op \in {128, 129, 131} -> A_riprel_stored(A_riprel_math)
             [] prev.op \in {246, 247} ->
                    /\ flag_z(Cur) = IsZero(And(I_riprel_old, I_riprel_imm))
                    /\ mem = prev.mem
             [] prev.op \in {105, 107} ->
                    /\ regs[I_regno] =
                         ZExt(MulT(I_riprel_old, I_riprel_imm), 8)
                    /\ mem = prev.mem
             [] prev.op = 193 ->
                    A_riprel_stored(Shl(I_riprel_old, I_imm(1)[1]))
             [] prev.op = 219 /\ I_digit = 5 ->
                    A_st(Cur, 0) = I_riprel_old /\ mem = prev.mem
             [] prev.op = 219 /\ I_digit = 7 -> A_riprel_stored(A_st(prev, 0))
             [] prev.op = 255 -> A_riprel_stored(AddNat(I_riprel_old, 1))

\* an instruction with an immediate behind a negative or positive
\* displacement wrote its RIP-relative operand
C35_ImmediateBehindDisplacement ==
    /\ I_riprel /\ prev.op = 129 /\ I_digit = 0
    /\ I_riprel_new # I_riprel_old
    /\ rip = AddNat(base, 10)
    /\ A_riprel = AddNat(base, 26)

(***************************************************************************)
(* movd and movq.                                                          *)
(***************************************************************************)

\* 66 0f 6e: movd / movq xmm, r/m;  f3 0f 7e: movq xmm, xmm/m64;
\* 66 0f 7e: movd / movq r/m, xmm
I_movd_6e     == prev.op = 15 /\ I_op2 = 110 /\ prev.prefix_size = 102
I_movq_7e     == prev.op = 15 /\ I_op2 = 126 /\ prev.prefix_sse2_repeat = 243
I_movd_store  == /\ prev.op = 15 /\ I_op2 = 126 /\ prev.prefix_size = 102
                 /\ prev.prefix_sse2_repeat # 243
I_movd_width  == IF I_movq_7e \/ I_W THEN 8 ELSE 4
\* the source of a form that writes an xmm register
I_movd_source ==
    IF I_movd_6e THEN I_rm_in(prev, I_movd_width)
    ELSE IF I_mod = 3 THEN SubSeq(prev.xregs[I_rmno], 1, 8)
    ELSE getui(prev, I_ea, 8)
I_movd_lane == SubSeq(prev.xregs[I_regno], 1, I_movd_width)
A_other_xregs(n) == \A i \in 0..15 : i # n => xregs[i] = prev.xregs[i]
A_other_regs(n)  == \A i \in 0..15 : i # n => regs[i] = prev.regs[i]

\* C36: movd / movq into an xmm register (66 0f 6e from r/m32 or r/m64,
\* f3 0f 7e from xmm/m64) writes the low 32 or 64 bits of the destination
\* and zeroes all its higher bits; movd / movq from an xmm register
\* (66 0f 7e) into a general register or memory transfers exactly 32 or 64
\* bits.
C36_MovdMovqLanes ==
    /\ Completed /\ (I_movd_6e \/ I_movq_7e) =>
          /\ xregs[I_regno] = ZExt(I_movd_source, 16)
          /\ A_other_xregs(I_regno)
          /\ regs = prev.regs /\ mem = prev.mem
    /\ Completed /\ I_movd_store =>
          /\ xregs = prev.xregs
          /\ IF I_mod = 3
             THEN /\ regs[I_rmno] = ZExt(I_movd_lane, 8)
                  /\ A_other_regs(I_rmno) /\ mem = prev.mem
             ELSE /\ getui(Cur, I_ea, I_movd_width) = I_movd_lane
                  /\ OnlyWritten(I_ea, I_movd_width) /\ regs = prev.regs

(***************************************************************************)
(* The packed shifts.                                                      *)
(***************************************************************************)

\* 66 0f 71 / 72 / 73 /2 /4 /6 ib: the shift of xmm by an immediate;
\* 66 0f d1..d3, e1, e2, f1..f3: the shift of xmm by the count in xmm/m128
I_pshift_imm ==
    /\ ArmRan /\ prev.op = 15 /\ prev.prefix_size = 102 /\ I_mod = 3
    /\ \/ I_op2 \in {113, 114} /\ I_digit \in {2, 4, 6}
       \/ I_op2 = 115 /\ I_digit \in {2, 6}
I_pshift_reg ==
    /\ ArmRan /\ prev.op = 15 /\ prev.prefix_size = 102
    /\ prev.prefix_sse2_repeat = 0
    /\ I_op2 \in {209, 210, 211, 225, 226, 241, 242, 243}
\* the element width in bytes, the kind of the shift (2 logical right,
\* 4 arithmetic right, 6 left) and the destination register
I_pshift_width ==
    IF I_pshift_imm THEN Pow2(I_op2 - 112) ELSE Pow2(I_op2 % 16)
I_pshift_kind ==
    IF I_pshift_imm THEN I_digit
    ELSE IF I_op2 < 224 THEN 2 ELSE IF I_op2 < 240 THEN 4 ELSE 6
I_pshift_dest == IF I_pshift_imm THEN I_rmno ELSE I_regno
\* the count, an imm8 or the low quadword of the source, is not below the
\* element width in bits
I_pshift_count ==
    IF I_pshift_imm THEN ZExt(I_imm(1), 8)
    ELSE IF I_mod = 3 THEN SubSeq(prev.xregs[I_rmno], 1, 8)
    ELSE getui(prev, I_ea, 8)
I_pshift_wide ==
    \/ ~IsZero(SubSeq(I_pshift_count, 2, 8))
    \/ I_pshift_count[1] >= 8 * I_pshift_width
\* every element of w bytes of v filled with its sign bit
A_sign_fill(v, w) ==
    Vec([k \in 1..16 |-> IF v[((k - 1) \div w) * w + w] >= 128 THEN 255 ELSE 0])

\* C37: a packed shift psllw/d/q or psrlw/d/q, by an immediate or by the
\* count in a register or memory, with a count not below the element width
\* leaves every element zero, and psraw / psrad with such a count leaves
\* every element filled with its own sign bit.
C37_WideCountClears ==
    (I_pshift_imm \/ I_pshift_reg) /\ I_pshift_wide =>
        /\ Completed
        /\ xregs[I_pshift_dest] =
             IF I_pshift_kind = 4
             THEN A_sign_fill(prev.xregs[I_pshift_dest], I_pshift_width)
             ELSE Zero(16)

(***************************************************************************)
(* cpuid.                                                                  *)
(***************************************************************************)

I_cpuid == ArmRan /\ prev.op = 15 /\ I_op2 = 162
\* the leaf: eax
I_leaf  == Trunc(prev.regs[rax], 4)
A_other_regs_of(ns) == \A i \in 0..15 : i \notin ns => regs[i] = prev.regs[i]

\* C38: cpuid depends only on eax: leaf 0 leaves "Genu", "ineI", "ntel" in
\* ebx, edx and ecx; leaf 1 leaves zero in the feature flags ecx and edx;
\* leaf 0x80000000 leaves eax = 0; for every other eax the termination hook
\* is invoked.
C38_CpuidLeaves ==
    I_cpuid =>
        CASE I_leaf = Zero(4) ->
                 /\ Completed
                 /\ regs[rbx] = << 71, 101, 110, 117, 0, 0, 0, 0 >>
                 /\ regs[rdx] = << 105, 110, 101, 73, 0, 0, 0, 0 >>
                 /\ regs[rcx] = << 110, 116, 101, 108, 0, 0, 0, 0 >>
          [] I_leaf = FromNat(1, 4) ->
                 Completed /\ regs[rcx] = Zero(8) /\ regs[rdx] = Zero(8)
          [] I_leaf = << 0, 0, 0, 128 >> ->
                 Completed /\ regs[rax] = Zero(8)
          [] OTHER -> status = "terminated" /\ hook = "opcode not handled"

(***************************************************************************)
(* The end-emulation request across calls of run().                        *)
(***************************************************************************)

A_returns == status = "run" /\ status' = "returned"
A_resumes == status = "returned" /\ status' = "run"

\* C39: an end-emulation request is consumed by exactly one return of run():
\* run() returns only with the request pending, and on its return the
\* end-emulation bit is clear and the trace bit as it was; the next call of
\* run() starts at the rip the return left, with no request pending, so it
\* does not return before a new request is made, and one request does not
\* end two calls.
C39_RequestConsumedOnce ==
    [][/\ A_returns =>
            /\ HasBit(g_State, stateEndEmulation)
            /\ ~HasBit(g_State', stateEndEmulation)
            /\ HasBit(g_State', stateTraceInstructions)
                 = HasBit(g_State, stateTraceInstructions)
            /\ rip' = rip
       /\ A_resumes =>
            /\ rip' = rip /\ regs' = regs /\ mem' = mem
            /\ ~HasBit(g_State', stateEndEmulation)
            /\ executed' = 0
       /\ status = "returned" => ~HasBit(g_State, stateEndEmulation)]_vars

\* the second call of run() executed the hlt behind the hlt that ended the
\* first call, and returned
C39_SecondRunExecuted ==
    /\ status = "returned" /\ executed = 1
    /\ mem[1] = 244 /\ mem[2] = 244
    /\ rip = AddNat(base, 2) /\ prev.g_State = stateEndEmulation
    /\ g_State = 0

====
